---- MODULE Spec2Model ----
(***************************************************************************)
(* A model of the matrix-authentication-service request handlers:          *)
(*   - the compat refresh endpoint (crates/handlers/src/compat/refresh.rs) *)
(*   - the upstream OAuth2 callback                                        *)
(*     (crates/handlers/src/upstream_oauth2/callback.rs) and its session   *)
(*     store (crates/storage/src/upstream_oauth2/session.rs)               *)
(* Every handler runs in one database transaction (pool.begin ... commit); *)
(* each await of the handler is one step, so that concurrent requests      *)
(* interleave at the points where the code suspends.  A transaction's      *)
(* writes are kept in the request until its commit applies them to the     *)
(* store; a request that returns early drops its transaction.              *)
(***************************************************************************)
EXTENDS Integers, Sequences, FiniteSets, TLC

VARIABLES
    now,                    \* Clock::now(), in minutes
    calls,                  \* number of refresh requests begun so far
    compat_refresh_tokens,  \* table compat_refresh_tokens: id -> row
    compat_access_tokens,   \* table compat_access_tokens: id -> row
    rreq,                   \* the refresh requests: slot -> request state
    ucalls,                 \* number of upstream requests begun so far
    db,                     \* the tables of the upstream flow, each id -> row
    browser,                \* what the browser holds: its cookies
    ureq                    \* the upstream requests: slot -> request state

rvars == <<calls, compat_refresh_tokens, compat_access_tokens, rreq>>

uvars == <<ucalls, db, browser, ureq>>

vars == <<now, rvars, uvars>>

----------------------------------------------------------------------------
(* Bounds *)

\* Last instant of the clock
MaxTime == 5
\* Refresh requests begun in one behaviour, when they run one after the other
MaxCalls == 2
\* Refresh requests begun in one behaviour, when two can be in flight at once
MaxRaceCalls == 3
\* Last instant of the clock when two requests can be in flight at once
MaxRaceTime == 1
\* Compat sessions that exist from the start, each with one token pair
NumCompatSessions == 1

\* Duration::minutes(5)
ExpiresIn == 5

\* Option<T>: None is the empty tuple, Some(x) the tuple of x
None == <<>>
Some(x) == <<x>>

\* The requests that can be in flight at once: the races are between two
Reqs == {1, 2}
CompatSessions == 1..NumCompatSessions

----------------------------------------------------------------------------
(* Token strings: a type prefix and a random part.  TokenType::check reads  *)
(* the type from the prefix.                                               *)

TokenTypes == {"AccessToken", "RefreshToken", "CompatAccessToken", "CompatRefreshToken"}

TokenPrefix(t) ==
    CASE t = "AccessToken" -> "mat"
      [] t = "RefreshToken" -> "mar"
      [] t = "CompatAccessToken" -> "mct"
      [] t = "CompatRefreshToken" -> "mcr"

\* TokenType::generate: the prefix of the type and a fresh random part
TokenGenerate(t, rand) == [prefix |-> TokenPrefix(t), rand |-> rand]

\* TokenType::check: the type of the prefix, or a TokenFormatError.  It
\* reads back the prefix that generate wrote: check(generate(T)) = T holds
\* by these two definitions, whatever the endpoints do.
TokenCheck(s) ==
    IF \E t \in TokenTypes : TokenPrefix(t) = s.prefix
    THEN CHOOSE t \in TokenTypes : TokenPrefix(t) = s.prefix
    ELSE "TokenFormatError"

----------------------------------------------------------------------------
(* The compat token store *)

\* lookup_active_compat_refresh_token: the unconsumed refresh tokens with
\* this token string (the column is unique: at most one)
ActiveRefreshIds(tok) ==
    {i \in DOMAIN compat_refresh_tokens :
        /\ compat_refresh_tokens[i].token = tok
        /\ compat_refresh_tokens[i].consumed_at = None}

lookup_active_compat_refresh_token(tok) ==
    IF ActiveRefreshIds(tok) = {} THEN None
    ELSE LET i == CHOOSE i \in ActiveRefreshIds(tok) : TRUE
         IN Some([refresh_token |-> i,
                  access_token  |-> compat_refresh_tokens[i].access_token,
                  session       |-> compat_refresh_tokens[i].session])

\* add_compat_access_token: the INSERT, as a write of the transaction
add_compat_access_token(id, session, token, expires_after) ==
    [op |-> "add_access", id |-> id,
     row |-> [session |-> session, token |-> token, created_at |-> now,
              expires_at |-> IF expires_after = None THEN None
                             ELSE Some(now + expires_after[1])]]

\* add_compat_refresh_token: the INSERT, as a write of the transaction
add_compat_refresh_token(id, session, access_token, token) ==
    [op |-> "add_refresh", id |-> id,
     row |-> [session |-> session, access_token |-> access_token,
              token |-> token, created_at |-> now, consumed_at |-> None]]

\* consume_compat_refresh_token: UPDATE ... SET consumed_at = now WHERE id
consume_compat_refresh_token(id) ==
    [op |-> "consume", id |-> id, at |-> now]

\* expire_compat_access_token: UPDATE ... SET expires_at = now WHERE id
expire_compat_access_token(id) ==
    [op |-> "expire", id |-> id, at |-> now]

\* One write applied to the two tables <<refresh, access>>
ApplyWrite(tabs, w) ==
    CASE w.op = "add_access" ->
            <<tabs[1], tabs[2] @@ (w.id :> w.row)>>
      [] w.op = "add_refresh" ->
            <<tabs[1] @@ (w.id :> w.row), tabs[2]>>
      [] w.op = "consume" ->
            <<[tabs[1] EXCEPT ![w.id].consumed_at = Some(w.at)], tabs[2]>>
      [] w.op = "expire" ->
            <<tabs[1], [tabs[2] EXCEPT ![w.id].expires_at = Some(w.at)]>>

RECURSIVE ApplyWrites(_, _)
ApplyWrites(tabs, ws) ==
    IF ws = <<>> THEN tabs
    ELSE ApplyWrites(ApplyWrite(tabs, Head(ws)), Tail(ws))

\* An access token is valid while it has no expiry or its expiry is ahead
AccessTokenValid(row) == row.expires_at = None \/ row.expires_at[1] > now

\* A refresh token is valid while it is not consumed
RefreshTokenValid(row) == row.consumed_at = None

----------------------------------------------------------------------------
(* The compat refresh endpoint: post *)

IdleRefreshReq ==
    [pc |-> "idle", call |-> 0, input |-> None, found |-> None,
     new_access |-> None, new_refresh |-> None, txn |-> <<>>,
     db_error |-> None, result |-> "pending", response |-> None]

\* A request is in flight from pool.begin() to its response
RefreshInFlight(q) == rreq[q].pc \notin {"idle", "done"}

\* The rows a request's open transaction has updated: they stay locked until
\* it commits or rolls back
RefreshLocks(q) ==
    IF RefreshInFlight(q)
    THEN {<<rreq[q].txn[k].op, rreq[q].txn[k].id>> :
            k \in {j \in DOMAIN rreq[q].txn : rreq[q].txn[j].op \in {"consume", "expire"}}}
    ELSE {}

RefreshRowFree(r, op, id) ==
    \A q \in Reqs \ {r} : <<op, id>> \notin RefreshLocks(q)

\* The token strings a client can present: every token the service has
\* issued, an unknown one of the right type, and a malformed one
RefreshInputs ==
    {compat_refresh_tokens[i].token : i \in DOMAIN compat_refresh_tokens}
    \cup {compat_access_tokens[i].token : i \in DOMAIN compat_access_tokens}
    \cup {[prefix |-> "mcr", rand |-> 0], [prefix |-> "xxx", rand |-> 0]}

\* refresh.rs 45-61: the response of a RouteError
RefreshIntoResponse(err) ==
    IF err = "Internal"
    THEN [errcode |-> "M_UNKNOWN", error |-> "Internal error", status |-> 500]
    ELSE [errcode |-> "M_UNKNOWN_TOKEN", error |-> "Invalid refresh token", status |-> 401]

\* An early return with Err(RouteError): the transaction is dropped, which
\* rolls it back
RefreshFail(r, err) ==
    rreq' = [rreq EXCEPT ![r].pc = "done", ![r].result = err, ![r].txn = <<>>,
                         ![r].response = Some(RefreshIntoResponse(err))]

\* A database call returns an error, which `?` turns into RouteError::Internal
\* (impl_from_error_for_route, refresh.rs 63-64); db_error names the call
RefreshDbError(r, call) ==
    rreq' = [rreq EXCEPT ![r].pc = "done", ![r].result = "Internal",
                         ![r].txn = <<>>, ![r].db_error = Some(call),
                         ![r].response = Some(RefreshIntoResponse("Internal"))]

\* refresh.rs 85-86: clock_and_rng(), pool.begin()
Post_begin(r, tok) ==
    /\ rreq[r].pc \in {"idle", "done"}
    /\ calls' = calls + 1
    /\ \/ rreq' = [rreq EXCEPT ![r] =
                    [IdleRefreshReq EXCEPT !.pc = "lookup", !.call = calls + 1,
                                           !.input = Some(tok)]]
       \/ rreq' = [rreq EXCEPT ![r] =
                    [IdleRefreshReq EXCEPT !.pc = "done", !.call = calls + 1,
                                           !.input = Some(tok), !.result = "Internal",
                                           !.db_error = Some("begin"),
                                           !.response = Some(RefreshIntoResponse("Internal"))]]
    /\ UNCHANGED <<uvars, now, compat_refresh_tokens, compat_access_tokens>>

\* lookup_active_compat_refresh_token without its "active" filter
lookup_any_compat_refresh_token(tok) ==
    LET ids == {i \in DOMAIN compat_refresh_tokens : compat_refresh_tokens[i].token = tok}
    IN IF ids = {} THEN None
       ELSE LET i == CHOOSE i \in ids : TRUE
            IN Some([refresh_token |-> i,
                     access_token  |-> compat_refresh_tokens[i].access_token,
                     session       |-> compat_refresh_tokens[i].session])

\* Post_lookup with a lookup that also returns consumed refresh tokens
Post_lookup_any(r) ==
    /\ rreq[r].pc = "lookup"
    /\ LET token_type == TokenCheck(rreq[r].input[1])
           found == lookup_any_compat_refresh_token(rreq[r].input[1])
       IN IF token_type = "TokenFormatError" THEN RefreshFail(r, "InvalidToken")
          ELSE IF token_type # "CompatRefreshToken" THEN RefreshFail(r, "InvalidToken")
          ELSE \/ RefreshDbError(r, "lookup")
               \/ IF found = None THEN RefreshFail(r, "InvalidToken")
                  ELSE rreq' = [rreq EXCEPT ![r].pc = "add_access", ![r].found = found]
    /\ UNCHANGED <<uvars, now, calls, compat_refresh_tokens, compat_access_tokens>>

\* Post_lookup with the TokenFormatError passed on as an internal error
Post_lookup_format_error(r) ==
    /\ rreq[r].pc = "lookup"
    /\ LET token_type == TokenCheck(rreq[r].input[1])
           found == lookup_active_compat_refresh_token(rreq[r].input[1])
       IN IF token_type = "TokenFormatError" THEN RefreshFail(r, "Internal")
          ELSE IF token_type # "CompatRefreshToken" THEN RefreshFail(r, "InvalidToken")
          ELSE \/ RefreshDbError(r, "lookup")
               \/ IF found = None THEN RefreshFail(r, "InvalidToken")
                  ELSE rreq' = [rreq EXCEPT ![r].pc = "add_access", ![r].found = found]
    /\ UNCHANGED <<uvars, now, calls, compat_refresh_tokens, compat_access_tokens>>

\* refresh.rs 88-97: TokenType::check, the type test, the lookup
Post_lookup(r) ==
    /\ rreq[r].pc = "lookup"
    /\ LET token_type == TokenCheck(rreq[r].input[1])
           found == lookup_active_compat_refresh_token(rreq[r].input[1])
       IN IF token_type = "TokenFormatError" THEN RefreshFail(r, "InvalidToken")
          ELSE IF token_type # "CompatRefreshToken" THEN RefreshFail(r, "InvalidToken")
          ELSE \/ RefreshDbError(r, "lookup")
               \/ IF found = None THEN RefreshFail(r, "InvalidToken")
                  ELSE rreq' = [rreq EXCEPT ![r].pc = "add_access", ![r].found = found]
    /\ UNCHANGED <<uvars, now, calls, compat_refresh_tokens, compat_access_tokens>>

\* The ids of the rows a call mints: Ulids, fresh for every call
NewRowId(call) == NumCompatSessions + call

\* Post_add_access with an access token that lasts ten minutes
Post_add_access_ten_minutes(r) ==
    /\ rreq[r].pc = "add_access"
    /\ LET id == NewRowId(rreq[r].call)
           new_access_token_str == TokenGenerate("CompatAccessToken", id)
           w == add_compat_access_token(id, rreq[r].found[1].session,
                                        new_access_token_str, Some(2 * ExpiresIn))
       IN \/ rreq' = [rreq EXCEPT ![r].pc = "add_refresh", ![r].new_access = Some(id),
                                  ![r].txn = Append(@, w)]
          \/ RefreshDbError(r, "add_access")
    /\ UNCHANGED <<uvars, now, calls, compat_refresh_tokens, compat_access_tokens>>

\* refresh.rs 99-111: generate the two strings, add_compat_access_token
Post_add_access(r) ==
    /\ rreq[r].pc = "add_access"
    /\ LET id == NewRowId(rreq[r].call)
           new_access_token_str == TokenGenerate("CompatAccessToken", id)
           w == add_compat_access_token(id, rreq[r].found[1].session,
                                        new_access_token_str, Some(ExpiresIn))
       IN \/ rreq' = [rreq EXCEPT ![r].pc = "add_refresh", ![r].new_access = Some(id),
                                  ![r].txn = Append(@, w)]
          \/ RefreshDbError(r, "add_access")
    /\ UNCHANGED <<uvars, now, calls, compat_refresh_tokens, compat_access_tokens>>

\* Post_add_refresh with the INSERT run on the pool instead of the
\* transaction: it is committed at once
Post_add_refresh_on_pool(r) ==
    /\ rreq[r].pc = "add_refresh"
    /\ LET id == NewRowId(rreq[r].call)
           new_refresh_token_str == TokenGenerate("CompatRefreshToken", id)
           w == add_compat_refresh_token(id, rreq[r].found[1].session,
                                         rreq[r].new_access[1], new_refresh_token_str)
       IN \/ /\ rreq' = [rreq EXCEPT ![r].pc = "consume", ![r].new_refresh = Some(id)]
             /\ compat_refresh_tokens' = compat_refresh_tokens @@ (w.id :> w.row)
          \/ /\ RefreshDbError(r, "add_refresh")
             /\ UNCHANGED compat_refresh_tokens
    /\ UNCHANGED <<uvars, now, calls, compat_access_tokens>>

\* refresh.rs 112-120: add_compat_refresh_token, paired with the new access token
Post_add_refresh(r) ==
    /\ rreq[r].pc = "add_refresh"
    /\ LET id == NewRowId(rreq[r].call)
           new_refresh_token_str == TokenGenerate("CompatRefreshToken", id)
           w == add_compat_refresh_token(id, rreq[r].found[1].session,
                                         rreq[r].new_access[1], new_refresh_token_str)
       IN \/ rreq' = [rreq EXCEPT ![r].pc = "consume", ![r].new_refresh = Some(id),
                                  ![r].txn = Append(@, w)]
          \/ RefreshDbError(r, "add_refresh")
    /\ UNCHANGED <<uvars, now, calls, compat_refresh_tokens, compat_access_tokens>>

\* refresh.rs 122: consume_compat_refresh_token on the token that was looked up.
\* The UPDATE waits while another open transaction holds the row.
Post_consume(r) ==
    /\ rreq[r].pc = "consume"
    /\ RefreshRowFree(r, "consume", rreq[r].found[1].refresh_token)
    /\ \/ rreq' = [rreq EXCEPT ![r].pc = "expire",
                      ![r].txn = Append(@, consume_compat_refresh_token(rreq[r].found[1].refresh_token))]
       \/ RefreshDbError(r, "consume")
    /\ UNCHANGED <<uvars, now, calls, compat_refresh_tokens, compat_access_tokens>>

\* Post_expire without the call of expire_compat_access_token
Post_expire_skipped(r) ==
    /\ rreq[r].pc = "expire"
    /\ rreq' = [rreq EXCEPT ![r].pc = "commit"]
    /\ UNCHANGED <<uvars, now, calls, compat_refresh_tokens, compat_access_tokens>>

\* refresh.rs 123: expire_compat_access_token on the paired access token
Post_expire(r) ==
    /\ rreq[r].pc = "expire"
    /\ RefreshRowFree(r, "expire", rreq[r].found[1].access_token)
    /\ \/ rreq' = [rreq EXCEPT ![r].pc = "commit",
                      ![r].txn = Append(@, expire_compat_access_token(rreq[r].found[1].access_token))]
       \/ RefreshDbError(r, "expire")
    /\ UNCHANGED <<uvars, now, calls, compat_refresh_tokens, compat_access_tokens>>

\* refresh.rs 125-131: txn.commit(), then the response body
Post_commit(r) ==
    /\ rreq[r].pc = "commit"
    /\ \/ LET tabs == ApplyWrites(<<compat_refresh_tokens, compat_access_tokens>>, rreq[r].txn)
          IN /\ compat_refresh_tokens' = tabs[1]
             /\ compat_access_tokens' = tabs[2]
             /\ rreq' = [rreq EXCEPT ![r].pc = "done", ![r].result = "Ok", ![r].txn = <<>>,
                           ![r].response =
                              Some([access_token |-> TokenGenerate("CompatAccessToken", rreq[r].new_access[1]),
                                    refresh_token |-> TokenGenerate("CompatRefreshToken", rreq[r].new_refresh[1]),
                                    expires_in_ms |-> ExpiresIn * 60000])]
       \/ /\ RefreshDbError(r, "commit")
          /\ UNCHANGED <<compat_refresh_tokens, compat_access_tokens>>
    /\ UNCHANGED <<uvars, now, calls>>

\* Time passes, a minute at a time, also while requests are in flight: every
\* storage call reads the clock itself
Tick ==
    /\ now < MaxTime
    /\ now' = now + 1
    /\ UNCHANGED <<uvars, calls, compat_refresh_tokens, compat_access_tokens, rreq>>

\* Every compat session starts with one refresh token and its access token
RefreshInit ==
    /\ now = 0
    /\ calls = 0
    /\ compat_access_tokens =
         [s \in CompatSessions |->
            [session |-> s, token |-> TokenGenerate("CompatAccessToken", s),
             created_at |-> 0, expires_at |-> Some(ExpiresIn)]]
    /\ compat_refresh_tokens =
         [s \in CompatSessions |->
            [session |-> s, access_token |-> s,
             token |-> TokenGenerate("CompatRefreshToken", s),
             created_at |-> 0, consumed_at |-> None]]
    /\ rreq = [r \in Reqs |-> IdleRefreshReq]

RefreshStep(r) ==
    \/ Post_lookup(r)
    \/ Post_add_access(r)
    \/ Post_add_refresh(r)
    \/ Post_consume(r)
    \/ Post_expire(r)
    \/ Post_commit(r)

\* Refresh requests run concurrently
RefreshNext ==
    \/ \E r \in Reqs : \E tok \in RefreshInputs :
          /\ calls < MaxRaceCalls
          /\ Post_begin(r, tok)
    \/ \E r \in Reqs : RefreshStep(r)
    \/ now < MaxRaceTime /\ Tick


----------------------------------------------------------------------------
(* Properties of the compat refresh endpoint *)

RefreshIdsOf(s) == {i \in DOMAIN compat_refresh_tokens : compat_refresh_tokens[i].session = s}
AccessIdsOf(s) == {i \in DOMAIN compat_access_tokens : compat_access_tokens[i].session = s}
ValidRefreshIds(s) == {i \in RefreshIdsOf(s) : RefreshTokenValid(compat_refresh_tokens[i])}
ValidAccessIds(s) == {i \in AccessIdsOf(s) : AccessTokenValid(compat_access_tokens[i])}

\* The request has returned the new token pair
RefreshOk(r) == rreq[r].pc = "done" /\ rreq[r].result = "Ok"

\* C1. Atomic rotation.  With the refresh calls of a session made one after
\* the other, starting from one valid refresh token and its access token:
\* the session always has exactly one valid refresh token, the newest one
\* (after a successful call: the one that call minted); the only access token
\* that can be valid is the one paired with it, and it is valid until its
\* five minutes have passed; the refresh token a successful call was given is
\* consumed and its access token expired.
C1_AtomicRotation ==
    /\ \A s \in CompatSessions :
         /\ Cardinality(ValidRefreshIds(s)) = 1
         /\ \A i \in ValidRefreshIds(s) :
              LET pair == compat_refresh_tokens[i].access_token
              IN /\ \A j \in RefreshIdsOf(s) : j <= i
                 /\ ValidAccessIds(s) \subseteq {pair}
                 /\ compat_access_tokens[pair].session = s
                 /\ pair \in ValidAccessIds(s)
                      <=> now < compat_access_tokens[pair].created_at + ExpiresIn
    /\ RefreshOk(1) =>
         LET old == rreq[1].found[1]
             new == rreq[1].new_refresh[1]
         IN /\ ValidRefreshIds(old.session) = {new}
            /\ compat_refresh_tokens[new].token = rreq[1].response[1].refresh_token
            /\ compat_refresh_tokens[new].access_token = rreq[1].new_access[1]
            /\ compat_access_tokens[rreq[1].new_access[1]].token = rreq[1].response[1].access_token
            /\ compat_refresh_tokens[old.refresh_token].token = rreq[1].input[1]
            /\ ~RefreshTokenValid(compat_refresh_tokens[old.refresh_token])
            /\ ~AccessTokenValid(compat_access_tokens[old.access_token])

\* A second successful call in a row has returned, having been given the
\* refresh token the first one minted, and one access token is valid
C1_Witness ==
    /\ RefreshOk(1)
    /\ rreq[1].found[1].refresh_token > NumCompatSessions
    /\ Cardinality(ValidAccessIds(rreq[1].found[1].session)) = 1
    /\ Cardinality(ValidRefreshIds(rreq[1].found[1].session)) = 1

\* C2. Two concurrent refresh requests given the same refresh token never
\* both return a new token pair.
C2_NotBothSucceed ==
    \A r, q \in Reqs :
        (r # q /\ RefreshOk(r) /\ RefreshOk(q)) => rreq[r].input # rreq[q].input

\* The refresh token with this string is consumed in the store
TokenConsumed(tok) ==
    \E i \in DOMAIN compat_refresh_tokens :
        /\ compat_refresh_tokens[i].token = tok
        /\ compat_refresh_tokens[i].consumed_at # None

\* C3. Idempotent consumption.  A consumed refresh token stays consumed, and
\* a request whose lookup of a refresh token runs after the token was
\* consumed by a committed call fails then and there, with InvalidToken
\* (Internal only when the database call itself failed), whatever calls were
\* made in between.
C3_ConsumedTokenRejected ==
    [][/\ \A i \in DOMAIN compat_refresh_tokens :
            compat_refresh_tokens[i].consumed_at # None =>
                /\ i \in DOMAIN compat_refresh_tokens'
                /\ compat_refresh_tokens'[i].consumed_at # None
                /\ compat_refresh_tokens'[i].token = compat_refresh_tokens[i].token
       /\ \A r \in Reqs :
            (/\ rreq[r].pc = "lookup"
             /\ rreq'[r] # rreq[r]
             /\ TokenConsumed(rreq[r].input[1]))
            => /\ rreq'[r].pc = "done"
               /\ rreq'[r].found = None
               /\ \/ rreq'[r].result = "InvalidToken"
                  \/ rreq'[r].result = "Internal" /\ rreq'[r].db_error = Some("lookup")
      ]_vars

\* A request given a token that an earlier call consumed, with another call
\* made in between, has failed with InvalidToken
C3_Witness ==
    \E r \in Reqs :
        /\ rreq[r].pc = "done"
        /\ rreq[r].result = "InvalidToken"
        /\ TokenCheck(rreq[r].input[1]) = "CompatRefreshToken"
        /\ TokenConsumed(rreq[r].input[1])
        /\ rreq[r].call = 3

\* The store after a request has rotated the pair it looked up: the two new
\* rows are there, the old refresh token is consumed and the old access token
\* expired, and every other row is as it was
Rotated(r) ==
    LET old == rreq[r].found[1]
        na == rreq[r].new_access[1]
        nr == rreq[r].new_refresh[1]
    IN /\ na \notin DOMAIN compat_access_tokens
       /\ nr \notin DOMAIN compat_refresh_tokens
       /\ DOMAIN compat_access_tokens' = DOMAIN compat_access_tokens \cup {na}
       /\ DOMAIN compat_refresh_tokens' = DOMAIN compat_refresh_tokens \cup {nr}
       /\ compat_access_tokens'[na].session = old.session
       /\ compat_refresh_tokens'[nr].session = old.session
       /\ compat_refresh_tokens'[nr].access_token = na
       /\ compat_refresh_tokens'[nr].consumed_at = None
       /\ compat_access_tokens'[na].created_at <= now
       /\ compat_access_tokens'[na].expires_at =
             Some(compat_access_tokens'[na].created_at + ExpiresIn)
       /\ compat_refresh_tokens'[old.refresh_token].consumed_at # None
       /\ compat_access_tokens'[old.access_token].expires_at # None
       /\ compat_access_tokens'[old.access_token].expires_at[1] <= now
       /\ \A i \in DOMAIN compat_refresh_tokens \ {old.refresh_token} :
              compat_refresh_tokens'[i] = compat_refresh_tokens[i]
       /\ \A i \in DOMAIN compat_access_tokens \ {old.access_token} :
              compat_access_tokens'[i] = compat_access_tokens[i]

\* C4. A refresh call is all or nothing, also with two requests in flight:
\* the store changes only in the step in which a request's commit succeeds,
\* and that step makes the whole rotation at once; a request that fails at
\* any step leaves the store as it is; so every minted refresh token is in
\* the store with its access token.
C4_AllOrNothing ==
    /\ [](\A i \in DOMAIN compat_refresh_tokens :
              /\ compat_refresh_tokens[i].access_token \in DOMAIN compat_access_tokens
              /\ (i > NumCompatSessions) => (i \in DOMAIN compat_access_tokens))
    /\ [](DOMAIN compat_access_tokens = DOMAIN compat_refresh_tokens)
    /\ [][/\ <<compat_refresh_tokens, compat_access_tokens>>' # <<compat_refresh_tokens, compat_access_tokens>>
             => \E r \in Reqs :
                  /\ rreq[r].pc = "commit"
                  /\ rreq'[r].pc = "done"
                  /\ rreq'[r].result = "Ok"
                  /\ Rotated(r)
          /\ \A r \in Reqs :
               (rreq[r].pc # "done" /\ rreq'[r].pc = "done" /\ rreq'[r].result # "Ok")
               => <<compat_refresh_tokens, compat_access_tokens>>' = <<compat_refresh_tokens, compat_access_tokens>>
      ]_vars

\* A request has failed after it had added the new pair to its transaction,
\* and the pair it was given is still valid and no new token exists
C4_Witness ==
    \E r \in Reqs :
        /\ rreq[r].pc = "done"
        /\ rreq[r].result = "Internal"
        /\ rreq[r].db_error \in {Some("consume"), Some("expire"), Some("commit")}
        /\ rreq[r].new_refresh # None
        /\ rreq[r].new_refresh[1] \notin DOMAIN compat_refresh_tokens
        /\ rreq[r].new_access[1] \notin DOMAIN compat_access_tokens
        /\ RefreshTokenValid(compat_refresh_tokens[rreq[r].found[1].refresh_token])
        /\ AccessTokenValid(compat_access_tokens[rreq[r].found[1].access_token])

----------------------------------------------------------------------------
(* The upstream OAuth2 flow: the store *)

\* Upstream requests (authorization starts, callbacks, link requests) begun
\* in one behaviour
MaxUCalls == 3

\* The minutes that pass while the upstream flow is followed
MaxUpTime == 1

\* The configured upstream providers (upstream_oauth_providers)
Providers == {"P1", "P2"}

\* The subjects the upstream providers know
Subjects == {"alice", "bob"}

\* The browsers that keep the cookies the service sets
Browsers == {"B1"}

EmptyDb ==
    [sessions |-> <<>>, links |-> <<>>, users |-> <<>>,
     user_sessions |-> <<>>, authentications |-> <<>>, user_passwords |-> <<>>,
     user_email_confirmation_codes |-> <<>>]

\* Ulid::from_datetime_with_source: the rows a request inserts get ids that
\* are fresh for the request
UNewId(call) == call

\* The value a row is read into (UpstreamOAuthAuthorizationSession,
\* UpstreamOAuthLink, ...): the row with its id
Struct(id, row) == [id |-> id] @@ row

\* UpstreamOAuthAuthorizationSession::completed, ::consumed
completed(session) == session.completed_at # None
consumed(session) == session.consumed_at # None

\* session.rs 50-135: lookup_session, the session joined with its provider
lookup_session(d, id) ==
    IF id \in DOMAIN d.sessions /\ d.sessions[id].provider_id \in Providers
    THEN Some([provider |-> [id |-> d.sessions[id].provider_id],
               session |-> Struct(id, d.sessions[id])])
    ELSE None

\* session.rs 148-200: add_session, the INSERT
add_session_write(id, provider, state, nonce) ==
    [op |-> "add_session", id |-> id,
     row |-> [provider_id |-> provider.id, link_id |-> None,
              state |-> state, nonce |-> nonce, id_token |-> None,
              created_at |-> now, completed_at |-> None, consumed_at |-> None]]

\* Variants of the UPDATE of complete_session, which the properties below
\* must tell from the code's: one that stamps consumed_at, one that leaves
\* link_id alone
complete_session_stamping_consumed(session, link, id_token) ==
    [op |-> "consume_session", id |-> session.id, consumed_at |-> Some(now)]

complete_session_without_link(session, link, id_token) ==
    [op |-> "complete_session", id |-> session.id,
     link_id |-> None, completed_at |-> Some(now), id_token |-> id_token]

\* session.rs 219-233: complete_session, the UPDATE
complete_session_write(session, link, id_token) ==
    [op |-> "complete_session", id |-> session.id,
     link_id |-> Some(link.id), completed_at |-> Some(now), id_token |-> id_token]

\* session.rs 235-238: complete_session, the value it returns
complete_session_value(session, link, id_token) ==
    [session EXCEPT !.completed_at = Some(now), !.id_token = id_token]

\* session.rs 255-265: consume_session, the UPDATE
consume_session_write(session) ==
    [op |-> "consume_session", id |-> session.id, consumed_at |-> Some(now)]

\* session.rs 267-269: consume_session, the value it returns
consume_session_value(session) ==
    [session EXCEPT !.consumed_at = Some(now)]

\* A variant of lookup_session_on_link without the link in its WHERE clause
lookup_session_on_any_link(d, link, id) ==
    IF id \in DOMAIN d.sessions
    THEN Some(Struct(id, d.sessions[id]))
    ELSE None

\* session.rs 294-338: lookup_session_on_link
lookup_session_on_link(d, link, id) ==
    IF id \in DOMAIN d.sessions /\ d.sessions[id].link_id = Some(link.id)
    THEN Some(Struct(id, d.sessions[id]))
    ELSE None

\* lookup_link_by_subject: the link of this provider and subject
lookup_link_by_subject(d, provider, subject) ==
    LET ids == {i \in DOMAIN d.links :
                  d.links[i].provider = provider.id /\ d.links[i].subject = subject}
    IN IF ids = {} THEN None
       ELSE LET i == CHOOSE i \in ids : \A j \in ids : i <= j
            IN Some(Struct(i, d.links[i]))

\* add_link: the INSERT of an unlinked Link
add_link_write(id, provider, subject) ==
    [op |-> "add_link", id |-> id,
     row |-> [provider |-> provider.id, subject |-> subject, user_id |-> None,
              created_at |-> now]]

\* lookup_link: the link of this id
lookup_link(d, id) ==
    IF id \in DOMAIN d.links THEN Some(Struct(id, d.links[id])) ELSE None

\* associate_link_to_user: the UPDATE that binds an unlinked Link to a User
associate_link_to_user_write(link, user) ==
    [op |-> "associate_link_to_user", id |-> link.id, user_id |-> Some(user.id)]

\* user/mod.rs 417-463: lookup_user
lookup_user(d, id) ==
    IF id \in DOMAIN d.users THEN Some(Struct(id, d.users[id])) ELSE None

\* A variant of add_user that leaves the username out
add_user_write_unnamed(id, username) ==
    [op |-> "add_user", id |-> id, row |-> [username |-> "", created_at |-> now]]

\* user/mod.rs 290-318: add_user, the INSERT and the value it returns
add_user_write(id, username) ==
    [op |-> "add_user", id |-> id, row |-> [username |-> username, created_at |-> now]]

\* The authentications of a user session
AuthenticationsOf(d, id) ==
    {a \in DOMAIN d.authentications : d.authentications[a].user_session_id = id}

\* user/mod.rs 143-149: LEFT JOIN user_session_authentications ... ORDER BY
\* a.created_at DESC LIMIT 1.  The rows the statement can return as the
\* last authentication: the one created last; of several created at the
\* same time, any one
LastAuthentication(d, id) ==
    IF AuthenticationsOf(d, id) = {} THEN {None}
    ELSE {Some(a) : a \in {x \in AuthenticationsOf(d, id) :
                              \A o \in AuthenticationsOf(d, id) :
                                 d.authentications[o].created_at
                                    <= d.authentications[x].created_at}}

\* A variant of lookup_active_session without finished_at IS NULL
lookup_active_session_or_finished(d, id) ==
    IF /\ id \in DOMAIN d.user_sessions
       /\ d.user_sessions[id].user_id \in DOMAIN d.users
    THEN {Some([id |-> id,
                user |-> Struct(d.user_sessions[id].user_id,
                                d.users[d.user_sessions[id].user_id]),
                created_at |-> d.user_sessions[id].created_at,
                last_authentication |-> last]) : last \in LastAuthentication(d, id)}
    ELSE {None}

\* user/mod.rs 122-160: lookup_active_session, the session that is not
\* finished, joined with its user and its last authentication: the values
\* the call can return
lookup_active_session(d, id) ==
    IF /\ id \in DOMAIN d.user_sessions
       /\ d.user_sessions[id].finished_at = None
       /\ d.user_sessions[id].user_id \in DOMAIN d.users
    THEN {Some([id |-> id,
                user |-> Struct(d.user_sessions[id].user_id,
                                d.users[d.user_sessions[id].user_id]),
                created_at |-> d.user_sessions[id].created_at,
                last_authentication |-> last]) : last \in LastAuthentication(d, id)}
    ELSE {None}

\* SessionInfo::load_session: the active session the session cookie names;
\* the values the call can return
load_session(d, cookie_session) ==
    IF cookie_session = None THEN {None}
    ELSE lookup_active_session(d, cookie_session[1])

\* user/mod.rs 227-257: start_session, the INSERT and the value it returns
start_session_write(id, user) ==
    [op |-> "start_session", id |-> id,
     row |-> [user_id |-> user.id, created_at |-> now, finished_at |-> None]]

start_session_value(id, user) ==
    [id |-> id, user |-> user, created_at |-> now, last_authentication |-> None]

\* DatabaseError::ensure_affected_rows: an error when the statement did not
\* touch the expected number of rows
ensure_affected_rows(rows_affected, expected) ==
    IF rows_affected = expected THEN "Ok" ELSE "Inconsistency"

\* A variant of end_session without the check of the affected rows
end_session_unchecked(d, user_session) == "Ok"

\* user/mod.rs 325-345: end_session, UPDATE user_sessions SET finished_at
\* WHERE user_session_id; what it returns, and the write
end_session(d, user_session) ==
    ensure_affected_rows(
        Cardinality({i \in DOMAIN d.user_sessions : i = user_session.id}), 1)

end_session_write(user_session) ==
    [op |-> "end_session", id |-> user_session.id, finished_at |-> Some(now)]

\* authenticate_session_with_upstream: the Authentication event appended,
\* and the session's last_authentication set to it
authenticate_session_with_upstream_write(id, session, link) ==
    [op |-> "authenticate", id |-> id,
     row |-> [user_session_id |-> session.id, link_id |-> Some(link.id),
              created_at |-> now]]

authenticate_session_with_upstream_value(id, session, link) ==
    [session EXCEPT !.last_authentication = Some(id)]

\* One write of a transaction applied to the tables
UApplyWrite(d, w) ==
    CASE w.op = "add_session" ->
            [d EXCEPT !.sessions = @ @@ (w.id :> w.row)]
      [] w.op = "complete_session" ->
            IF w.id \in DOMAIN d.sessions
            THEN [d EXCEPT !.sessions[w.id].link_id = w.link_id,
                           !.sessions[w.id].completed_at = w.completed_at,
                           !.sessions[w.id].id_token = w.id_token]
            ELSE d
      [] w.op = "consume_session" ->
            IF w.id \in DOMAIN d.sessions
            THEN [d EXCEPT !.sessions[w.id].consumed_at = w.consumed_at]
            ELSE d
      [] w.op = "add_link" ->
            [d EXCEPT !.links = @ @@ (w.id :> w.row)]
      [] w.op = "associate_link_to_user" ->
            IF w.id \in DOMAIN d.links
            THEN [d EXCEPT !.links[w.id].user_id = w.user_id]
            ELSE d
      [] w.op = "add_user" ->
            [d EXCEPT !.users = @ @@ (w.id :> w.row)]
      [] w.op = "start_session" ->
            [d EXCEPT !.user_sessions = @ @@ (w.id :> w.row)]
      [] w.op = "authenticate" ->
            [d EXCEPT !.authentications = @ @@ (w.id :> w.row)]
      [] w.op = "end_session" ->
            IF w.id \in DOMAIN d.user_sessions
            THEN [d EXCEPT !.user_sessions[w.id].finished_at = w.finished_at]
            ELSE d
      [] w.op = "add_user_password" ->
            [d EXCEPT !.user_passwords = @ @@ (w.id :> w.row)]
      [] w.op = "add_user_email_verification_code" ->
            [d EXCEPT !.user_email_confirmation_codes = @ @@ (w.id :> w.row)]
      [] w.op = "consume_email_verification" ->
            IF w.id \in DOMAIN d.user_email_confirmation_codes
            THEN [d EXCEPT !.user_email_confirmation_codes[w.id].consumed_at =
                              w.consumed_at]
            ELSE d

RECURSIVE UApplyWrites(_, _)
UApplyWrites(d, ws) ==
    IF ws = <<>> THEN d
    ELSE UApplyWrites(UApplyWrite(d, Head(ws)), Tail(ws))

----------------------------------------------------------------------------
(* The Pending-Session Set, carried in a cookie: a list of entries           *)
(* [session, provider, state, link]                                         *)

\* UpstreamSessionsCookie::add
CookieAdd(jar, session, provider, state) ==
    Append(jar, [session |-> session, provider |-> provider, state |-> state,
                 link |-> None])

\* The first of these positions of a list, or 0 if there is none
FirstPos(ks) ==
    IF ks = {} THEN 0 ELSE CHOOSE k \in ks : \A j \in ks : k <= j

\* UpstreamSessionsCookie::find_session: the pending entry of this provider
\* and state
CookieFindSession(jar, provider, state) ==
    LET k == FirstPos({j \in DOMAIN jar : /\ jar[j].provider = provider
                                          /\ jar[j].state = state
                                          /\ jar[j].link = None})
    IN IF k = 0 THEN None ELSE Some(jar[k].session)

\* UpstreamSessionsCookie::add_link_to_session: the pending entry of the
\* session becomes a resolved entry of the link
CookieAddLinkToSession(jar, session, link) ==
    LET k == FirstPos({j \in DOMAIN jar : jar[j].session = session /\ jar[j].link = None})
    IN IF k = 0 THEN None ELSE Some([jar EXCEPT ![k].link = Some(link)])

\* UpstreamSessionsCookie::lookup_link: the session of the entry resolved to
\* this link, the most recent one if there are several
CookieLookupLink(jar, link) ==
    LET ks == {k \in DOMAIN jar : jar[k].link = Some(link)}
    IN IF ks = {} THEN None
       ELSE Some(jar[CHOOSE k \in ks : \A j \in ks : jar[j].session <= jar[k].session].session)

\* The list without its k-th entry
RemoveAt(jar, k) ==
    [j \in 1..(Len(jar) - 1) |-> IF j < k THEN jar[j] ELSE jar[j + 1]]

\* UpstreamSessionsCookie::consume_link: the first entry resolved to this
\* link is removed
CookieConsumeLink(jar, link) ==
    LET k == FirstPos({j \in DOMAIN jar : jar[j].link = Some(link)})
    IN IF k = 0 THEN None ELSE Some(RemoveAt(jar, k))


----------------------------------------------------------------------------
(* The upstream OAuth2 flow: requests *)

IdleUReq ==
    [kind |-> "idle", pc |-> "idle", call |-> 0, from |-> "nobody", jar |-> <<>>,
     params |-> None, session_id |-> None, provider |-> None, session |-> None,
     subject |-> None, id_token |-> None, link |-> None,
     cookie_session |-> None, user_session |-> None, user |-> None,
     user_password |-> None, arm |-> "", txn |-> <<>>,
     http_calls |-> <<>>, nwrites |-> 0, db_error |-> None, result |-> "pending",
     response |-> None, status |-> 0]

UpstreamIdle ==
    /\ ucalls = 0
    /\ db = EmptyDb
    /\ browser = [b \in Browsers |-> [cookie |-> <<>>, session |-> None]]
    /\ ureq = [r \in Reqs |-> IdleUReq]

UInFlight(q) == ureq[q].pc \notin {"idle", "done"}

\* What a request reads: the committed tables and its own writes
UView(r) == UApplyWrites(db, ureq[r].txn)

\* The rows a request's open transaction has updated
ULocks(q) ==
    IF UInFlight(q)
    THEN {<<ureq[q].txn[k].op, ureq[q].txn[k].id>> :
            k \in {j \in DOMAIN ureq[q].txn :
                     ureq[q].txn[j].op \in {"complete_session", "consume_session"}}}
    ELSE {}

\* An UPDATE of a row waits while another open transaction has updated it
SessionRowFree(r, id) ==
    \A q \in Reqs \ {r} :
        <<"complete_session", id>> \notin ULocks(q) /\ <<"consume_session", id>> \notin ULocks(q)

\* callback.rs 104-112: the status of a RouteError of the callback
CallbackIntoResponse(err) ==
    IF err = "SessionNotFound" THEN 404
    ELSE IF err = "Internal" THEN 500
    ELSE 400

\* link.rs 75-83: the status of a RouteError of the link page
LinkIntoResponse(err) ==
    IF err = "LinkNotFound" THEN 404
    ELSE IF err = "Internal" THEN 500
    ELSE 500

\* The status of a response: a page (link.rs 186), a redirect (link.rs 254,
\* callback.rs 249-252), or that of the error
ResponseStatus(kind, result) ==
    IF kind \notin {"callback", "link_get", "link_post"} THEN 0
    ELSE IF result = "Ok" THEN (IF kind = "link_get" THEN 200 ELSE 303)
    ELSE IF kind = "callback" THEN CallbackIntoResponse(result)
    ELSE LinkIntoResponse(result)

\* A response: the request ends, its transaction (if still open) is dropped
\* and what it held is gone; what remains is what it was asked, what it
\* answered and what it did
Finished(q, result, response, db_error) ==
    [IdleUReq EXCEPT !.kind = q.kind, !.pc = "done", !.call = q.call, !.from = q.from,
                     !.params = q.params, !.http_calls = q.http_calls,
                     !.nwrites = q.nwrites, !.result = result, !.response = response,
                     !.db_error = db_error, !.status = ResponseStatus(q.kind, result)]

UDone(r, result, response) ==
    ureq' = [ureq EXCEPT ![r] = Finished(@, result, response, None)]

\* A `?` on a failed call: RouteError::Internal
UDbError(r, call) ==
    ureq' = [ureq EXCEPT ![r] = Finished(@, "Internal", None, Some(call))]

\* The start of an authorization at an upstream provider: add_session, and
\* the pending entry added to the browser's Pending-Session Set.  The state
\* and the nonce are random strings, fresh for the session.
Authorize(b, provider) ==
    /\ ucalls < MaxUCalls
    /\ LET id == UNewId(ucalls + 1)
           w == add_session_write(id, [id |-> provider], id, id)
       IN /\ db' = UApplyWrite(db, w)
          /\ browser' = [browser EXCEPT ![b].cookie = CookieAdd(@, id, provider, id)]
    /\ ucalls' = ucalls + 1
    /\ UNCHANGED <<rvars, now, ureq>>

\* QueryParams.code_or_error
CodeOrErrors ==
    {[kind |-> "Code", error |-> "", error_description |-> None],
     [kind |-> "Error", error |-> "access_denied", error_description |-> None],
     [kind |-> "Error", error |-> "server_error", error_description |-> Some("try later")]}

\* callback.rs 115-132: clock_and_rng, pool.begin(), the cookie loaded and
\* find_session on it
Get_begin(r, from, jar, provider_id, state, coe) ==
    /\ ureq[r].pc \in {"idle", "done"}
    /\ ucalls < MaxUCalls
    /\ ucalls' = ucalls + 1
    /\ LET found == CookieFindSession(jar, provider_id, state)
           req == [IdleUReq EXCEPT !.kind = "callback", !.call = ucalls + 1,
                       !.from = from, !.jar = jar,
                       !.params = Some([provider_id |-> provider_id, state |-> state,
                                        code_or_error |-> coe])]
       IN \/ ureq' = [ureq EXCEPT ![r] = Finished(req, "Internal", None, Some("begin"))]
          \/ IF found = None
             THEN ureq' = [ureq EXCEPT ![r] =
                             [req EXCEPT !.pc = "done", !.result = "MissingCookie",
                                         !.status = ResponseStatus(req.kind, "MissingCookie")]]
             ELSE ureq' = [ureq EXCEPT ![r] =
                             [req EXCEPT !.pc = "lookup", !.session_id = found]]
    /\ UNCHANGED <<rvars, now, db, browser>>

\* Variants of the checks, which the properties below must tell from the
\* code's: the state not compared; the state compared before the provider
CallbackChecks_without_state(res, params) ==
    IF res = None THEN "SessionNotFound"
    ELSE IF res[1].provider.id # params.provider_id THEN "ProviderMismatch"
    ELSE IF completed(res[1].session) THEN "AlreadyCompleted"
    ELSE "pass"

CallbackChecks_state_first(res, params) ==
    IF res = None THEN "SessionNotFound"
    ELSE IF params.state # res[1].session.state THEN "StateMismatch"
    ELSE IF res[1].provider.id # params.provider_id THEN "ProviderMismatch"
    ELSE IF completed(res[1].session) THEN "AlreadyCompleted"
    ELSE "pass"

\* A variant that goes on to the exchange whatever the upstream sent
CodeOrClientError_ignored(code_or_error) ==
    [err |-> "", response |-> None]

\* callback.rs 134-151: the checks on the session that was looked up, in
\* the order of the code; the error of the first that fails, or "pass"
CallbackChecks(res, params) ==
    IF res = None THEN "SessionNotFound"
    ELSE IF res[1].provider.id # params.provider_id THEN "ProviderMismatch"
    ELSE IF params.state # res[1].session.state THEN "StateMismatch"
    ELSE IF completed(res[1].session) THEN "AlreadyCompleted"
    ELSE "pass"

\* callback.rs 153-166: params.code_or_error; the error the upstream sent
\* becomes RouteError::ClientError, a code goes on to the exchange
CodeOrClientError(code_or_error) ==
    IF code_or_error.kind = "Error"
    THEN [err |-> "ClientError",
          response |-> Some([error |-> code_or_error.error,
                             error_description |-> code_or_error.error_description])]
    ELSE [err |-> "", response |-> None]

\* callback.rs 134-166: lookup_session, the provider, state and completed
\* checks, and the error the upstream sent instead of a code
Get_lookup(r) ==
    /\ ureq[r].kind = "callback" /\ ureq[r].pc = "lookup"
    /\ LET params == ureq[r].params[1]
           res == lookup_session(UView(r), ureq[r].session_id[1])
           failed == CallbackChecks(res, params)
           code == CodeOrClientError(params.code_or_error)
       IN \/ UDbError(r, "lookup_session")
          \/ IF failed # "pass" THEN UDone(r, failed, None)
             ELSE IF code.err # "" THEN UDone(r, code.err, code.response)
             ELSE ureq' = [ureq EXCEPT ![r].pc = "http_service_discover",
                                       ![r].provider = Some(res[1].provider),
                                       ![r].session = Some(res[1].session)]
    /\ UNCHANGED <<rvars, now, ucalls, db, browser>>

\* What the token endpoint can answer to the exchange of the code: a failure
\* of the request, or a token response; its ID token, if any, has a
\* signature that verifies or not, maybe a nonce and maybe a subject
UpstreamAnswers(nonce) ==
    {[fails |-> "token_request", id_token |-> None], [fails |-> "", id_token |-> None]}
    \cup {[fails |-> "", id_token |-> Some([sig_ok |-> g, nonce |-> n, sub |-> sub])] :
            g \in BOOLEAN, n \in {Some(nonce), Some(0), None},
            sub \in {None} \cup {Some(x) : x \in Subjects}}

\* A variant that requires the nonce claim, of any value
access_token_with_authorization_code_any_nonce(answer, validation_data) ==
    IF answer.fails = "token_request" THEN [err |-> "TokenRequest", id_token |-> None]
    ELSE IF answer.id_token = None THEN [err |-> "MissingIdToken", id_token |-> None]
    ELSE IF ~answer.id_token[1].sig_ok THEN [err |-> "IdToken", id_token |-> None]
    ELSE IF answer.id_token[1].nonce = None
         THEN [err |-> "IdToken", id_token |-> None]
    ELSE [err |-> "", id_token |-> answer.id_token]

\* authorization_code.rs 394-457: access_token_with_authorization_code, with
\* id_token_verification_data given: the verified ID token, or an error
access_token_with_authorization_code(answer, validation_data) ==
    IF answer.fails = "token_request" THEN [err |-> "TokenRequest", id_token |-> None]
    ELSE IF answer.id_token = None THEN [err |-> "MissingIdToken", id_token |-> None]
    ELSE IF ~answer.id_token[1].sig_ok THEN [err |-> "IdToken", id_token |-> None]
    ELSE IF answer.id_token[1].nonce = None
         THEN [err |-> "IdToken", id_token |-> None]
    ELSE IF answer.id_token[1].nonce[1] # validation_data.nonce
         THEN [err |-> "IdToken", id_token |-> None]
    ELSE [err |-> "", id_token |-> answer.id_token]

\* callback.rs 168-170, 177-179, 211-213: http_client_factory.http_service,
\* the client for the next request; a ClientInitError is RouteError::Internal
\* and no request is made
Get_http_service(r) ==
    /\ ureq[r].kind = "callback"
    /\ ureq[r].pc \in {"http_service_discover", "http_service_fetch_jwks",
                      "http_service_exchange"}
    /\ \/ UDbError(r, "http_service")
       \/ ureq' = [ureq EXCEPT ![r].pc =
                     CASE @ = "http_service_discover" -> "discover"
                       [] @ = "http_service_fetch_jwks" -> "fetch_jwks"
                       [] @ = "http_service_exchange" -> "exchange"]
    /\ UNCHANGED <<rvars, now, ucalls, db, browser>>

\* callback.rs 172-175: discover, the metadata of the provider fetched
Get_discover(r) ==
    /\ ureq[r].kind = "callback" /\ ureq[r].pc = "discover"
    /\ LET calls_made == [ureq EXCEPT ![r].http_calls = Append(@, "discover")]
       IN \/ ureq' = [calls_made EXCEPT ![r] =
                         Finished(@, "Internal", None, Some("discover"))]
          \/ ureq' = [calls_made EXCEPT ![r].pc = "http_service_fetch_jwks"]
    /\ UNCHANGED <<rvars, now, ucalls, db, browser>>

\* callback.rs 181-209: fetch_jwks, then the client credentials worked out
\* for the provider, either of which can fail
Get_fetch_jwks(r) ==
    /\ ureq[r].kind = "callback" /\ ureq[r].pc = "fetch_jwks"
    /\ LET calls_made == [ureq EXCEPT ![r].http_calls = Append(@, "fetch_jwks")]
       IN \/ \E failed \in {"fetch_jwks", "client_credentials"} :
               ureq' = [calls_made EXCEPT ![r] =
                          Finished(@, "Internal", None, Some(failed))]
          \/ ureq' = [calls_made EXCEPT ![r].pc = "http_service_exchange"]
    /\ UNCHANGED <<rvars, now, ucalls, db, browser>>

\* callback.rs 215-231: the code exchanged for tokens, the ID token required
\* and its subject extracted
Get_exchange(r) ==
    /\ ureq[r].kind = "callback" /\ ureq[r].pc = "exchange"
    /\ \E answer \in UpstreamAnswers(ureq[r].session[1].nonce) :
         LET validation_data == [state |-> ureq[r].session[1].state,
                                 nonce |-> ureq[r].session[1].nonce]
             got == access_token_with_authorization_code(answer, validation_data)
             calls_made == [ureq EXCEPT ![r].http_calls = Append(@, "token_request")]
         IN IF got.err # ""
              THEN ureq' = [calls_made EXCEPT ![r] =
                              Finished(@, "Internal", None, Some(got.err))]
            ELSE IF got.id_token = None
              THEN ureq' = [calls_made EXCEPT ![r] =
                              Finished(@, "MissingIDToken", None, None)]
            ELSE IF got.id_token[1].sub = None
              THEN ureq' = [calls_made EXCEPT ![r] =
                              Finished(@, "InvalidIdToken", None, None)]
            ELSE ureq' = [calls_made EXCEPT ![r].pc = "lookup_link",
                                            ![r].subject = got.id_token[1].sub,
                                            ![r].id_token =
                                               Some([sub |-> got.id_token[1].sub[1],
                                                     nonce |-> got.id_token[1].nonce[1],
                                                     jti |-> ureq[r].call])]
    /\ UNCHANGED <<rvars, now, ucalls, db, browser>>

\* callback.rs 233-237: lookup_link_by_subject
Get_lookup_link(r) ==
    /\ ureq[r].kind = "callback" /\ ureq[r].pc = "lookup_link"
    /\ LET maybe_link == lookup_link_by_subject(UView(r), ureq[r].provider[1],
                                                ureq[r].subject[1])
       IN \/ UDbError(r, "lookup_link_by_subject")
          \/ IF maybe_link # None
             THEN ureq' = [ureq EXCEPT ![r].pc = "complete", ![r].link = maybe_link]
             ELSE ureq' = [ureq EXCEPT ![r].pc = "add_link"]
    /\ UNCHANGED <<rvars, now, ucalls, db, browser>>

\* The links of this provider and subject that another open transaction has
\* inserted: the INSERT waits for that transaction to end
LinkInsertPending(r, provider, subject) ==
    \E q \in Reqs \ {r} :
        /\ UInFlight(q)
        /\ \E k \in DOMAIN ureq[q].txn :
             /\ ureq[q].txn[k].op = "add_link"
             /\ ureq[q].txn[k].row.provider = provider.id
             /\ ureq[q].txn[k].row.subject = subject

\* A store without the unique key on the links
LinkKeyTaken_never(d, provider, subject) == FALSE

\* The unique key (provider, subject) of the links: a link of them is in
\* the store
LinkKeyTaken(d, provider, subject) ==
    lookup_link_by_subject(d, provider, subject) # None

\* A variant of add_link that writes to the store at once, outside the
\* transaction
Get_add_link_on_pool(r) ==
    /\ ureq[r].kind = "callback" /\ ureq[r].pc = "add_link"
    /\ ~LinkInsertPending(r, ureq[r].provider[1], ureq[r].subject[1])
    /\ LET id == UNewId(ureq[r].call)
           w == add_link_write(id, ureq[r].provider[1], ureq[r].subject[1])
       IN IF LinkKeyTaken(db, ureq[r].provider[1], ureq[r].subject[1])
          THEN UDbError(r, "add_link") /\ db' = db
          ELSE /\ ureq' = [ureq EXCEPT ![r].pc = "complete",
                                       ![r].link = Some(Struct(id, w.row)),
                                       ![r].nwrites = @ + 1]
               /\ db' = UApplyWrite(db, w)
    /\ UNCHANGED <<rvars, now, ucalls, browser>>

\* callback.rs 238-240: add_link, when no link was found.  (provider, subject)
\* is unique: the INSERT fails when a link of them has been committed.
Get_add_link(r) ==
    /\ ureq[r].kind = "callback" /\ ureq[r].pc = "add_link"
    /\ ~LinkInsertPending(r, ureq[r].provider[1], ureq[r].subject[1])
    /\ LET id == UNewId(ureq[r].call)
           w == add_link_write(id, ureq[r].provider[1], ureq[r].subject[1])
       IN \/ UDbError(r, "add_link")
          \/ IF LinkKeyTaken(db, ureq[r].provider[1], ureq[r].subject[1])
             THEN UDbError(r, "add_link")
             ELSE ureq' = [ureq EXCEPT ![r].pc = "complete",
                                       ![r].link = Some(Struct(id, w.row)),
                                       ![r].txn = Append(@, w),
                                       ![r].nwrites = @ + 1]
    /\ UNCHANGED <<rvars, now, ucalls, db, browser>>

\* callback.rs 242: complete_session
Get_complete(r) ==
    /\ ureq[r].kind = "callback" /\ ureq[r].pc = "complete"
    /\ SessionRowFree(r, ureq[r].session[1].id)
    /\ LET session == ureq[r].session[1]
           link == ureq[r].link[1]
       IN \/ UDbError(r, "complete_session")
          \/ ureq' = [ureq EXCEPT
                        ![r].pc = "commit",
                        ![r].session = Some(complete_session_value(session, link, ureq[r].id_token)),
                        ![r].txn = Append(@, complete_session_write(session, link, ureq[r].id_token)),
                        ![r].nwrites = @ + 1]
    /\ UNCHANGED <<rvars, now, ucalls, db, browser>>

\* callback.rs 243-252: the cookie entry resolved to the link and saved,
\* txn.commit(), the redirect to the link
Get_commit(r) ==
    /\ ureq[r].kind = "callback" /\ ureq[r].pc = "commit"
    /\ LET saved == CookieAddLinkToSession(ureq[r].jar, ureq[r].session[1].id,
                                           ureq[r].link[1].id)
       IN IF saved = None
          THEN /\ UDbError(r, "add_link_to_session")
               /\ UNCHANGED <<db, browser>>
          ELSE \/ /\ UDbError(r, "commit")
                  /\ UNCHANGED <<db, browser>>
               \/ /\ db' = UApplyWrites(db, ureq[r].txn)
                  /\ browser' = IF ureq[r].from \in Browsers
                                THEN [browser EXCEPT ![ureq[r].from].cookie = saved[1]]
                                ELSE browser
                  /\ UDone(r, "Ok", Some([redirect_to_link |-> ureq[r].link[1].id]))
    /\ UNCHANGED <<rvars, now, ucalls>>

CallbackStep(r) ==
    \/ Get_lookup(r)
    \/ Get_http_service(r)
    \/ Get_discover(r)
    \/ Get_fetch_jwks(r)
    \/ Get_exchange(r)
    \/ Get_lookup_link(r)
    \/ Get_add_link(r)
    \/ Get_complete(r)
    \/ Get_commit(r)

\* Time passes, also while requests are in flight: every storage call reads
\* the clock itself
UTick ==
    /\ now < MaxUpTime
    /\ now' = now + 1
    /\ UNCHANGED <<rvars, uvars>>

\* The states that sessions of the store have, and one that none has
KnownStates == {db.sessions[i].state : i \in DOMAIN db.sessions} \cup {0}

\* A cookie that was not set in this run: one pending entry, of any session,
\* provider and state
ForeignJars ==
    {<<[session |-> i, provider |-> p, state |-> st, link |-> None]>> :
        i \in DOMAIN db.sessions \cup {0}, p \in Providers, st \in KnownStates}

\* A callback with any cookie and any parameters, one request at a time
CallbackNext ==
    \/ \E b \in Browsers, p \in Providers : Authorize(b, p)
    \/ \E b \in Browsers, p \in Providers, st \in KnownStates, coe \in CodeOrErrors :
          Get_begin(1, b, browser[b].cookie, p, st, coe)
    \/ \E jar \in ForeignJars, p \in Providers, st \in KnownStates, coe \in CodeOrErrors :
          Get_begin(1, "other", jar, p, st, coe)
    \/ CallbackStep(1)

----------------------------------------------------------------------------
(* The link page: GET and POST /upstream/link/:id *)

\* FormData, with the CSRF token of the form valid or not; a registration
\* form carries the username ann
Forms ==
    {[action |-> a, username |-> "", csrf_ok |-> ok] :
        a \in {"Link", "Login"}, ok \in BOOLEAN}
    \cup {[action |-> "Register", username |-> u, csrf_ok |-> ok] :
            u \in {"ann"}, ok \in BOOLEAN}

\* link.rs 99-105 and 195-203: pool.begin(), the form verified (POST), the
\* cookie loaded and lookup_link on it
Link_begin(r, kind, from, jar, cookie_session, link_id, form) ==
    /\ ureq[r].pc \in {"idle", "done"}
    /\ ucalls < MaxUCalls
    /\ ucalls' = ucalls + 1
    /\ LET found == CookieLookupLink(jar, link_id)
           req == [IdleUReq EXCEPT !.kind = kind, !.call = ucalls + 1,
                       !.from = from, !.jar = jar, !.cookie_session = cookie_session,
                       !.params = Some([link_id |-> link_id, form |-> form])]
       IN \/ ureq' = [ureq EXCEPT ![r] = Finished(req, "Internal", None, Some("begin"))]
          \/ IF kind = "link_post" /\ ~form[1].csrf_ok
             THEN ureq' = [ureq EXCEPT ![r] =
                             Finished(req, "Internal", None, Some("verify_form"))]
             ELSE IF found = None
             THEN ureq' = [ureq EXCEPT ![r] =
                             [req EXCEPT !.pc = "done", !.result = "MissingCookie",
                                         !.status = ResponseStatus(req.kind, "MissingCookie")]]
             ELSE ureq' = [ureq EXCEPT ![r] =
                             [req EXCEPT !.pc = "lookup", !.session_id = found]]
    /\ UNCHANGED <<rvars, now, db, browser>>

\* Variants of the arms, which the properties below must tell from the
\* code's: a GET that consumes for any user; a POST that accepts action=link
\* whatever the link is bound to
GetArm_any_user(maybe_user_session, link) ==
    IF maybe_user_session # None /\ link.user_id # None THEN "consume"
    ELSE IF maybe_user_session # None THEN "suggest_link"
    ELSE IF link.user_id # None THEN "do_login"
    ELSE "do_register"

PostArm_any_link(maybe_user_session, link, form) ==
    IF maybe_user_session # None /\ form.action = "Link"
      THEN "Link"
    ELSE IF maybe_user_session = None /\ link.user_id # None /\ form.action = "Login"
      THEN "Login"
    ELSE IF maybe_user_session = None /\ link.user_id = None /\ form.action = "Register"
      THEN "Register"
    ELSE "InvalidFormAction"

\* A variant of the GET that compares the user of the session with the id
\* of the link
GetArm_by_link_id(maybe_user_session, link) ==
    IF maybe_user_session # None /\ link.user_id # None
    THEN IF maybe_user_session[1].user.id = link.id
         THEN "consume" ELSE "link_mismatch"
    ELSE IF maybe_user_session # None THEN "suggest_link"
    ELSE IF link.user_id # None THEN "do_login"
    ELSE "do_register"

\* link.rs 126-173: the page the GET renders, by the user session and the
\* user of the link; "consume" is the first arm, which goes on to write
GetArm(maybe_user_session, link) ==
    IF maybe_user_session # None /\ link.user_id # None
    THEN IF maybe_user_session[1].user.id = link.user_id[1]
         THEN "consume" ELSE "link_mismatch"
    ELSE IF maybe_user_session # None THEN "suggest_link"
    ELSE IF link.user_id # None THEN "do_login"
    ELSE "do_register"

\* link.rs 224-242: the arm the POST takes, by the user session, the user
\* of the link and the form
PostArm(maybe_user_session, link, form) ==
    IF maybe_user_session # None /\ link.user_id = None /\ form.action = "Link"
      THEN "Link"
    ELSE IF maybe_user_session = None /\ link.user_id # None /\ form.action = "Login"
      THEN "Login"
    ELSE IF maybe_user_session = None /\ link.user_id = None /\ form.action = "Register"
      THEN "Register"
    ELSE "InvalidFormAction"

\* A variant of the checks without the consumed check
LinkChecks_without_consumed(maybe_link, maybe_session) ==
    IF maybe_link = None THEN "LinkNotFound"
    ELSE IF maybe_session = None THEN "SessionNotFound"
    ELSE "pass"

\* link.rs 107-119 and 209-220: the checks on the link and the session
\* that were looked up; the error of the first that fails, or "pass"
LinkChecks(maybe_link, maybe_session) ==
    IF maybe_link = None THEN "LinkNotFound"
    ELSE IF maybe_session = None THEN "SessionNotFound"
    ELSE IF consumed(maybe_session[1]) THEN "SessionConsumed"
    ELSE "pass"

\* link.rs 107-109 and 208-210: lookup_link, or LinkNotFound
Link_lookup_link(r) ==
    /\ ureq[r].kind \in {"link_get", "link_post"} /\ ureq[r].pc = "lookup"
    /\ LET maybe_link == lookup_link(UView(r), ureq[r].params[1].link_id)
       IN \/ UDbError(r, "lookup_link")
          \/ IF LinkChecks(maybe_link, None) = "LinkNotFound"
             THEN UDone(r, "LinkNotFound", None)
             ELSE ureq' = [ureq EXCEPT ![r].pc = "lookup_session", ![r].link = maybe_link]
    /\ UNCHANGED <<rvars, now, ucalls, db, browser>>

\* link.rs 111-119 and 212-220: lookup_session_on_link, or SessionNotFound,
\* and the consumed check
Link_lookup_session_on_link(r) ==
    /\ ureq[r].kind \in {"link_get", "link_post"} /\ ureq[r].pc = "lookup_session"
    /\ LET maybe_session == lookup_session_on_link(UView(r), ureq[r].link[1],
                                                   ureq[r].session_id[1])
           failed == LinkChecks(ureq[r].link, maybe_session)
       IN \/ UDbError(r, "lookup_session_on_link")
          \/ IF failed # "pass" THEN UDone(r, failed, None)
             ELSE ureq' = [ureq EXCEPT ![r].pc = "load_session",
                                       ![r].session = maybe_session]
    /\ UNCHANGED <<rvars, now, ucalls, db, browser>>

\* link.rs 121-126 and 222-225, 243: load_session, and the arm chosen.  Of
\* the GET, the first arm goes on to write, two arms look the user of the
\* link up, two render at once; of the POST, each arm goes on to its first
\* statement
Link_load_session(r) ==
    /\ ureq[r].kind \in {"link_get", "link_post"} /\ ureq[r].pc = "load_session"
    /\ \/ UDbError(r, "load_session")
       \/ \E maybe_user_session \in load_session(UView(r), ureq[r].cookie_session) :
            LET arm == IF ureq[r].kind = "link_get"
                       THEN GetArm(maybe_user_session, ureq[r].link[1])
                       ELSE PostArm(maybe_user_session, ureq[r].link[1],
                                    ureq[r].params[1].form[1])
                after == CASE arm = "consume" -> "consume"
                           [] arm \in {"link_mismatch", "do_login", "Login"} -> "lookup_user"
                           [] arm \in {"suggest_link", "do_register"} -> "render"
                           [] arm = "Link" -> "associate"
                           [] arm = "Register" -> "add_user"
                           [] OTHER -> "done"
            IN IF arm = "InvalidFormAction"
               THEN UDone(r, "InvalidFormAction", None)
               ELSE ureq' = [ureq EXCEPT ![r].pc = after,
                                         ![r].user_session = maybe_user_session,
                                         ![r].arm = arm]
    /\ UNCHANGED <<rvars, now, ucalls, db, browser>>

\* link.rs 150, 170, 232: lookup_user of the user of the link; an error when
\* there is no such row
Link_lookup_user(r) ==
    /\ ureq[r].kind \in {"link_get", "link_post"} /\ ureq[r].pc = "lookup_user"
    /\ LET user == lookup_user(UView(r), ureq[r].link[1].user_id[1])
       IN \/ UDbError(r, "lookup_user")
          \/ IF user = None THEN UDbError(r, "lookup_user")
             ELSE ureq' = [ureq EXCEPT ![r].pc = IF ureq[r].kind = "link_get"
                                                 THEN "render" ELSE "start_session",
                                       ![r].user = user]
    /\ UNCHANGED <<rvars, now, ucalls, db, browser>>

\* link.rs 137-143, 152-156, 161-165, 172-174, 180-186: the page of the arm
\* rendered, a TemplateError being RouteError::Internal; with the page of
\* the first arm goes the session cookie.  The transaction still open is
\* dropped with the response.
Link_render(r) ==
    /\ ureq[r].kind = "link_get" /\ ureq[r].pc = "render"
    /\ \/ /\ UDbError(r, "render")
          /\ browser' = browser
       \/ IF ureq[r].arm = "consume"
          THEN /\ UDone(r, "Ok", Some([page |-> "already_linked",
                                       session |-> ureq[r].user_session[1]]))
               /\ browser' = IF ureq[r].from \notin Browsers THEN browser
                             ELSE [browser EXCEPT ![ureq[r].from].session =
                                                      Some(ureq[r].user_session[1].id)]
          ELSE /\ UDone(r, "Ok", Some([page |-> ureq[r].arm]))
               /\ browser' = browser
    /\ UNCHANGED <<rvars, now, ucalls, db>>

\* A variant of associate_link_to_user that never fails
LinkBound_never(d, link) == FALSE

\* associate_link_to_user fails if the link is bound already
LinkBound(d, link) ==
    lookup_link(d, link.id) # None /\ lookup_link(d, link.id)[1].user_id # None

\* The writes that wait for another open transaction to end: the UPDATE
\* of a link it has updated, the INSERT of a username it has inserted
LinkWritePending(r, link_id) ==
    \E q \in Reqs \ {r} :
        /\ UInFlight(q)
        /\ \E k \in DOMAIN ureq[q].txn :
             ureq[q].txn[k].op = "associate_link_to_user" /\ ureq[q].txn[k].id = link_id

UserWritePending(r, username) ==
    \E q \in Reqs \ {r} :
        /\ UInFlight(q)
        /\ \E k \in DOMAIN ureq[q].txn :
             ureq[q].txn[k].op = "add_user" /\ ureq[q].txn[k].row.username = username

UsernameTaken(d, username) ==
    \E i \in DOMAIN d.users : d.users[i].username = username

\* link.rs 237: add_user of the arm Register; the username is unique
Link_add_user(r) ==
    /\ ureq[r].kind = "link_post" /\ ureq[r].pc = "add_user"
    /\ ~UserWritePending(r, ureq[r].params[1].form[1].username)
    /\ LET id == UNewId(ureq[r].call)
           w == add_user_write(id, ureq[r].params[1].form[1].username)
       IN \/ UDbError(r, "add_user")
          \/ IF UsernameTaken(UView(r), ureq[r].params[1].form[1].username)
             THEN UDbError(r, "add_user")
             ELSE ureq' = [ureq EXCEPT ![r].pc = "associate",
                                       ![r].user = Some(Struct(id, w.row)),
                                       ![r].txn = Append(@, w),
                                       ![r].nwrites = @ + 1]
    /\ UNCHANGED <<rvars, now, ucalls, db, browser>>

\* link.rs 227 and 238: associate_link_to_user, to the user of the session
\* (arm Link) or to the user added (arm Register)
Link_associate_link_to_user(r) ==
    /\ ureq[r].kind = "link_post" /\ ureq[r].pc = "associate"
    /\ ~LinkWritePending(r, ureq[r].link[1].id)
    /\ LET link == ureq[r].link[1]
           user == IF ureq[r].arm = "Link" THEN ureq[r].user_session[1].user
                   ELSE ureq[r].user[1]
       IN \/ UDbError(r, "associate_link_to_user")
          \/ IF LinkBound(UView(r), link)
             THEN UDbError(r, "associate_link_to_user")
             ELSE ureq' = [ureq EXCEPT
                             ![r].pc = IF ureq[r].arm = "Link" THEN "consume"
                                       ELSE "start_session",
                             ![r].txn = Append(@, associate_link_to_user_write(link, user)),
                             ![r].nwrites = @ + 1]
    /\ UNCHANGED <<rvars, now, ucalls, db, browser>>

\* link.rs 233 and 240: start_session for the user looked up (arm Login) or
\* added (arm Register)
Link_start_session(r) ==
    /\ ureq[r].kind = "link_post" /\ ureq[r].pc = "start_session"
    /\ LET id == UNewId(ureq[r].call)
           user == ureq[r].user[1]
       IN \/ UDbError(r, "start_session")
          \/ ureq' = [ureq EXCEPT
                        ![r].pc = "consume",
                        ![r].user_session = Some(start_session_value(id, user)),
                        ![r].txn = Append(@, start_session_write(id, user)),
                        ![r].nwrites = @ + 1]
    /\ UNCHANGED <<rvars, now, ucalls, db, browser>>

\* A variant of the consume step that writes to the store at once, outside
\* the transaction
Link_consume_on_pool(r) ==
    /\ ureq[r].kind \in {"link_get", "link_post"} /\ ureq[r].pc = "consume"
    /\ SessionRowFree(r, ureq[r].session[1].id)
    /\ ureq' = [ureq EXCEPT ![r].pc = "authenticate",
                            ![r].session = Some(consume_session_value(ureq[r].session[1])),
                            ![r].nwrites = @ + 1]
    /\ db' = UApplyWrite(db, consume_session_write(ureq[r].session[1]))
    /\ UNCHANGED <<rvars, now, ucalls, browser>>

\* link.rs 129 and 246: consume_session
Link_consume(r) ==
    /\ ureq[r].kind \in {"link_get", "link_post"} /\ ureq[r].pc = "consume"
    /\ SessionRowFree(r, ureq[r].session[1].id)
    /\ \/ UDbError(r, "consume_session")
       \/ ureq' = [ureq EXCEPT
                     ![r].pc = "authenticate",
                     ![r].session = Some(consume_session_value(ureq[r].session[1])),
                     ![r].txn = Append(@, consume_session_write(ureq[r].session[1])),
                     ![r].nwrites = @ + 1]
    /\ UNCHANGED <<rvars, now, ucalls, db, browser>>

\* link.rs 130-133 and 247-252: authenticate_session_with_upstream, then the
\* link consumed in the cookie (POST) and the session cookie set
Link_authenticate(r) ==
    /\ ureq[r].kind \in {"link_get", "link_post"} /\ ureq[r].pc = "authenticate"
    /\ LET id == UNewId(ureq[r].call)
           link == ureq[r].link[1]
           session == ureq[r].user_session[1]
           saved == IF ureq[r].kind = "link_post"
                    THEN CookieConsumeLink(ureq[r].jar, ureq[r].params[1].link_id)
                    ELSE Some(ureq[r].jar)
       IN \/ UDbError(r, "authenticate_session_with_upstream")
          \/ IF saved = None
             THEN UDbError(r, "consume_link")
             ELSE ureq' = [ureq EXCEPT
                     ![r].pc = "commit",
                     ![r].user_session =
                        Some(authenticate_session_with_upstream_value(id, session, link)),
                     ![r].txn = Append(@, authenticate_session_with_upstream_write(
                                             id, session, link)),
                     ![r].nwrites = @ + 1]
    /\ UNCHANGED <<rvars, now, ucalls, db, browser>>

\* link.rs 135 and 254-256: txn.commit().  The POST answers with the redirect
\* and its cookies; the GET goes on to render the page.
Link_commit(r) ==
    /\ ureq[r].kind \in {"link_get", "link_post"} /\ ureq[r].pc = "commit"
    /\ \/ /\ UDbError(r, "commit")
          /\ UNCHANGED <<db, browser>>
       \/ /\ db' = UApplyWrites(db, ureq[r].txn)
          /\ IF ureq[r].kind = "link_post"
             THEN /\ browser' =
                       IF ureq[r].from \notin Browsers THEN browser
                       ELSE [browser EXCEPT
                               ![ureq[r].from].cookie =
                                  CookieConsumeLink(ureq[r].jar,
                                                    ureq[r].params[1].link_id)[1],
                               ![ureq[r].from].session = Some(ureq[r].user_session[1].id)]
                  /\ UDone(r, "Ok", Some([page |-> "go_next",
                                          session |-> ureq[r].user_session[1]]))
             ELSE /\ browser' = browser
                  /\ ureq' = [ureq EXCEPT ![r].pc = "render", ![r].txn = <<>>]
    /\ UNCHANGED <<rvars, now, ucalls>>

LinkStep(r) ==
    \/ Link_lookup_link(r)
    \/ Link_lookup_session_on_link(r)
    \/ Link_load_session(r)
    \/ Link_lookup_user(r)
    \/ Link_render(r)
    \/ Link_add_user(r)
    \/ Link_associate_link_to_user(r)
    \/ Link_start_session(r)
    \/ Link_consume(r)
    \/ Link_authenticate(r)
    \/ Link_commit(r)

\* The links the entries of a cookie are resolved to
LinksOfJar(jar) == {jar[k].link[1] : k \in {j \in DOMAIN jar : jar[j].link # None}}

\* The pending entries of a cookie: the callbacks the upstream can redirect to
PendingOfJar(jar) == {jar[k] : k \in {j \in DOMAIN jar : jar[j].link = None}}

\* The connection that serves the next request: the first that is free
FreeSlot ==
    IF \E q \in Reqs : ~UInFlight(q)
    THEN {CHOOSE q \in Reqs : ~UInFlight(q) /\ \A o \in Reqs : ~UInFlight(o) => q <= o}
    ELSE {}

\* The browsers follow the redirects: callbacks of the authorizations they
\* started, link pages of the links they were sent to; two requests at a time
UpstreamNext ==
    \/ \E b \in Browsers, p \in Providers : Authorize(b, p)
    \/ \E r \in FreeSlot, b \in Browsers : \E e \in PendingOfJar(browser[b].cookie) :
          \E coe \in CodeOrErrors :
             Get_begin(r, b, browser[b].cookie, e.provider, e.state, coe)
    \/ \E r \in FreeSlot, b \in Browsers : \E l \in LinksOfJar(browser[b].cookie) :
          Link_begin(r, "link_get", b, browser[b].cookie, browser[b].session, l, None)
    \/ \E r \in FreeSlot, b \in Browsers : \E l \in LinksOfJar(browser[b].cookie) :
          \E form \in Forms :
             Link_begin(r, "link_post", b, browser[b].cookie, browser[b].session, l,
                        Some(form))
    \/ \E r \in Reqs : CallbackStep(r)
    \/ \E r \in Reqs : LinkStep(r)
    \/ UTick

\* A store where a user has registered through an upstream provider before:
\* the user, their link, the session of their browser and its authentication
\* (the rows a run of Authorize, the callback and the Register form leave,
\* with the session they consumed left out)
RegisteredDb ==
    [EmptyDb EXCEPT
       !.users = (0 :> [username |-> "zoe", created_at |-> 0]),
       !.links = (0 :> [provider |-> "P1", subject |-> "alice", user_id |-> Some(0),
                        created_at |-> 0]),
       !.user_sessions = (0 :> [user_id |-> 0, created_at |-> 0, finished_at |-> None]),
       !.authentications = (0 :> [user_session_id |-> 0, link_id |-> Some(0),
                                  created_at |-> 0])]

\* The upstream flow starts on an empty store, or on one where a user has
\* registered, in a browser that has their session or that has no session
UpstreamInit ==
    /\ RefreshInit
    /\ ucalls = 0
    /\ ureq = [r \in Reqs |-> IdleUReq]
    /\ \/ db = EmptyDb /\ browser = [b \in Browsers |-> [cookie |-> <<>>, session |-> None]]
       \/ /\ db = RegisteredDb
          /\ \E s \in {None, Some(0)} :
                browser = [b \in Browsers |-> [cookie |-> <<>>, session |-> s]]

----------------------------------------------------------------------------
(* The browser sessions of the store, called one statement at a time *)

\* Calls of the storage functions in one behaviour
MaxStoreCalls == 3

\* The ids a caller can hold: those of the rows, and one of no row
UserSessionIds == DOMAIN db.user_sessions \cup {9}

\* The BrowserSession value a caller holds for an id
HeldSession(id) ==
    [id |-> id, user |-> Struct(0, RegisteredDb.users[0]), created_at |-> 0,
     last_authentication |-> None]

\* A call of a storage function on the pool: what was asked and what came back
StoreCall(r, kind, id, result, value, db_error) ==
    ureq' = [ureq EXCEPT ![r] =
               Finished([IdleUReq EXCEPT !.kind = kind, !.call = ucalls + 1,
                                         !.params = Some([id |-> id])],
                        result, value, db_error)]

\* end_session(&pool, &clock, &user_session)
Store_end_session(r, id) ==
    /\ ucalls < MaxStoreCalls
    /\ ucalls' = ucalls + 1
    /\ LET user_session == HeldSession(id)
           res == end_session(db, user_session)
       IN \/ /\ StoreCall(r, "end_session", id, res, None, None)
             /\ db' = UApplyWrite(db, end_session_write(user_session))
          \/ /\ StoreCall(r, "end_session", id, "Internal", None, Some("end_session"))
             /\ db' = db
    /\ UNCHANGED <<rvars, now, browser>>

\* lookup_active_session(&pool, id)
Store_lookup_active_session(r, id) ==
    /\ ucalls < MaxStoreCalls
    /\ ucalls' = ucalls + 1
    /\ \/ \E found \in lookup_active_session(db, id) :
             StoreCall(r, "lookup_active_session", id, "Ok", Some(found), None)
       \/ StoreCall(r, "lookup_active_session", id, "Internal", None,
                    Some("lookup_active_session"))
    /\ UNCHANGED <<rvars, now, db, browser>>

\* start_session(&pool, &mut rng, &clock, user)
Store_start_session(r, user_id) ==
    /\ ucalls < MaxStoreCalls
    /\ ucalls' = ucalls + 1
    /\ LET id == UNewId(ucalls + 1)
           user == Struct(user_id, db.users[user_id])
       IN \/ /\ StoreCall(r, "start_session", id, "Ok",
                          Some(start_session_value(id, user)), None)
             /\ db' = UApplyWrite(db, start_session_write(id, user))
          \/ /\ StoreCall(r, "start_session", id, "Internal", None, Some("start_session"))
             /\ db' = db
    /\ UNCHANGED <<rvars, now, browser>>

\* A store with one user and their browser session
StoreInit ==
    /\ RefreshInit
    /\ ucalls = 0
    /\ ureq = [r \in Reqs |-> IdleUReq]
    /\ db = RegisteredDb
    /\ browser = [b \in Browsers |-> [cookie |-> <<>>, session |-> Some(0)]]

StoreNext ==
    \/ \E r \in Reqs : \E id \in UserSessionIds : Store_end_session(r, id)
    \/ \E r \in Reqs : \E id \in UserSessionIds : Store_lookup_active_session(r, id)
    \/ \E r \in Reqs : \E u \in DOMAIN db.users : Store_start_session(r, u)
    \/ UTick

----------------------------------------------------------------------------
(* The login and logout pages: POST /login, POST /logout *)

\* Requests of the pages in one behaviour
MaxPageCalls == 3

\* The versions of the password hashing scheme: the manager verifies a hash
\* of any version and upgrades one of an older version to the current one
CurrentVersion == 2

\* PasswordManager: the hash of a password under a version of the scheme
HashPassword(version, password) == <<"hash", version, password>>

\* PasswordManager::verify_and_upgrade: an error when the password is not
\* the one hashed; else the new version and hash, if the version is old
verify_and_upgrade(version, password, hashed_password) ==
    IF hashed_password # HashPassword(version, password)
      THEN [err |-> "InvalidCredentials", upgraded |-> None]
    ELSE IF version # CurrentVersion
      THEN [err |-> "", upgraded |-> Some([version |-> CurrentVersion,
                                           hashed_password |->
                                              HashPassword(CurrentVersion, password)])]
    ELSE [err |-> "", upgraded |-> None]

\* user/mod.rs 352-410: lookup_user_by_username
lookup_user_by_username(d, username) ==
    LET ids == {i \in DOMAIN d.users : d.users[i].username = username}
    IN IF ids = {} THEN None
       ELSE LET id == CHOOSE i \in ids : TRUE IN Some(Struct(id, d.users[id]))

\* lookup_user_password: the last password of the user
lookup_user_password(d, user) ==
    LET ids == {i \in DOMAIN d.user_passwords : d.user_passwords[i].user_id = user.id}
    IN IF ids = {} THEN None
       ELSE LET id == CHOOSE i \in ids : \A o \in ids : o <= i
            IN Some(Struct(id, d.user_passwords[id]))

\* add_user_password: the INSERT and the value it returns
add_user_password_write(id, user, version, hashed_password, upgraded_from) ==
    [op |-> "add_user_password", id |-> id,
     row |-> [user_id |-> user.id, version |-> version,
              hashed_password |-> hashed_password,
              upgraded_from_id |-> IF upgraded_from = None THEN None
                                   ELSE Some(upgraded_from[1].id),
              created_at |-> now]]

\* authenticate_session_with_password: the Authentication event appended,
\* and the session's last_authentication set to it
authenticate_session_with_password_write(id, session, user_password) ==
    [op |-> "authenticate", id |-> id,
     row |-> [user_session_id |-> session.id, link_id |-> None,
              user_password_id |-> Some(user_password.id), created_at |-> now]]

authenticate_session_with_password_value(id, session, user_password) ==
    [session EXCEPT !.last_authentication = Some(id)]

\* LoginForm, with the CSRF token of the form valid or not
LoginForms ==
    {[username |-> u, password |-> p, csrf_ok |-> ok] :
        u \in {"zoe", "yan", "old", "nobody", ""}, p \in {"pw", "bad", ""},
        ok \in BOOLEAN}

\* login.rs 149-159: login() returned Err(e): the error is put on the form
\* and render is called; the request is at the first await of render
LoginFormError(r, e, call) ==
    ureq' = [ureq EXCEPT ![r].pc = "load_context", ![r].arm = e,
                         ![r].db_error = IF e = "Internal" THEN Some(call) ELSE None]

\* login.rs 86-116 and 132: post: a connection of the pool, the form verified
\* and validated; a form with an empty field is rendered again, after
\* get_providers
Login_begin(r, b, form) ==
    /\ ucalls < MaxPageCalls
    /\ ~UInFlight(r)
    /\ ucalls' = ucalls + 1
    /\ LET req == [IdleUReq EXCEPT !.kind = "login_post", !.call = ucalls + 1,
                                   !.from = b, !.params = Some([form |-> form])]
       IN \/ ureq' = [ureq EXCEPT ![r] = Finished(req, "Internal", None, Some("acquire"))]
          \/ IF ~form.csrf_ok
               THEN ureq' = [ureq EXCEPT ![r] =
                               Finished(req, "Internal", None, Some("verify_form"))]
             ELSE IF form.username = "" \/ form.password = ""
               THEN ureq' = [ureq EXCEPT ![r] = [req EXCEPT !.pc = "get_providers",
                                                            !.arm = "Required"]]
             ELSE ureq' = [ureq EXCEPT ![r] = [req EXCEPT !.pc = "lookup"]]
    /\ UNCHANGED <<rvars, now, db, browser>>

\* login.rs 117: get_providers, for the form that is not valid
Login_get_providers(r) ==
    /\ ureq[r].kind = "login_post" /\ ureq[r].pc = "get_providers"
    /\ \/ UDbError(r, "get_providers")
       \/ ureq' = [ureq EXCEPT ![r].pc = "load_context"]
    /\ UNCHANGED <<rvars, now, ucalls, db, browser>>

\* login.rs 238: render: load_context of the post-auth action, a read on the
\* connection
Login_load_context(r) ==
    /\ ureq[r].kind = "login_post" /\ ureq[r].pc = "load_context"
    /\ \/ UDbError(r, "load_context")
       \/ ureq' = [ureq EXCEPT ![r].pc = "render"]
    /\ UNCHANGED <<rvars, now, ucalls, db, browser>>

\* login.rs 246, then 129 or 161: render: render_login, and the page with
\* the errors of the form as the response
Login_render(r) ==
    /\ ureq[r].kind = "login_post" /\ ureq[r].pc = "render"
    /\ \/ UDbError(r, "render")
       \/ ureq' = [ureq EXCEPT ![r] =
                     Finished(ureq[r], "Form", Some([form_error |-> ureq[r].arm]),
                              ureq[r].db_error)]
    /\ UNCHANGED <<rvars, now, ucalls, db, browser>>

\* login.rs 132: lookup_user_by_username, its value dropped
Login_lookup(r) ==
    /\ ureq[r].kind = "login_post" /\ ureq[r].pc = "lookup"
    /\ \/ UDbError(r, "lookup_user_by_username")
       \/ ureq' = [ureq EXCEPT ![r].pc = "login"]
    /\ UNCHANGED <<rvars, now, ucalls, db, browser>>

\* login.rs 177-180: login, the user looked up
Login_user(r) ==
    /\ ureq[r].kind = "login_post" /\ ureq[r].pc = "login"
    /\ LET user == lookup_user_by_username(db, ureq[r].params[1].form.username)
       IN \/ LoginFormError(r, "Internal", "lookup_user_by_username")
          \/ IF user = None THEN LoginFormError(r, "InvalidCredentials", "")
             ELSE ureq' = [ureq EXCEPT ![r].pc = "password", ![r].user = user]
    /\ UNCHANGED <<rvars, now, ucalls, db, browser>>

\* login.rs 183-186: login, the password of the user looked up
Login_password(r) ==
    /\ ureq[r].kind = "login_post" /\ ureq[r].pc = "password"
    /\ LET user_password == lookup_user_password(db, ureq[r].user[1])
       IN \/ LoginFormError(r, "Internal", "lookup_user_password")
          \/ IF user_password = None THEN LoginFormError(r, "InvalidCredentials", "")
             ELSE ureq' = [ureq EXCEPT ![r].pc = "verify",
                                       ![r].user_password = user_password]
    /\ UNCHANGED <<rvars, now, ucalls, db, browser>>

\* login.rs 188-201: login, the password verified; when its hash is of an
\* older version the new hash is saved next
Login_verify(r) ==
    /\ ureq[r].kind = "login_post" /\ ureq[r].pc = "verify"
    /\ LET user_password == ureq[r].user_password[1]
           new_password_hash == verify_and_upgrade(user_password.version,
                                                   ureq[r].params[1].form.password,
                                                   user_password.hashed_password)
       IN IF new_password_hash.err # ""
            THEN LoginFormError(r, "InvalidCredentials", "")
          ELSE IF new_password_hash.upgraded = None
            THEN ureq' = [ureq EXCEPT ![r].pc = "start_session"]
          ELSE ureq' = [ureq EXCEPT ![r].pc = "add_user_password"]
    /\ UNCHANGED <<rvars, now, ucalls, db, browser>>

\* login.rs 201-216: login, the upgraded password saved.  The statement runs
\* on the connection: it is committed when it returns.
Login_add_user_password(r) ==
    /\ ureq[r].kind = "login_post" /\ ureq[r].pc = "add_user_password"
    /\ LET user_password == ureq[r].user_password[1]
           id == UNewId(ureq[r].call)
           new_password_hash == verify_and_upgrade(user_password.version,
                                                   ureq[r].params[1].form.password,
                                                   user_password.hashed_password)
           w == add_user_password_write(
                   id, ureq[r].user[1], new_password_hash.upgraded[1].version,
                   new_password_hash.upgraded[1].hashed_password,
                   Some(user_password))
       IN \/ LoginFormError(r, "Internal", "add_user_password") /\ db' = db
          \/ /\ ureq' = [ureq EXCEPT ![r].pc = "start_session",
                                     ![r].user_password = Some(Struct(id, w.row)),
                                     ![r].nwrites = @ + 1]
             /\ db' = UApplyWrite(db, w)
    /\ UNCHANGED <<rvars, now, ucalls, browser>>

\* login.rs 219-221: login, start_session on the connection
Login_start_session(r) ==
    /\ ureq[r].kind = "login_post" /\ ureq[r].pc = "start_session"
    /\ LET id == UNewId(ureq[r].call)
       IN \/ LoginFormError(r, "Internal", "start_session") /\ db' = db
          \/ /\ ureq' = [ureq EXCEPT
                           ![r].pc = "authenticate",
                           ![r].user_session = Some(start_session_value(id, ureq[r].user[1])),
                           ![r].nwrites = @ + 1]
             /\ db' = UApplyWrite(db, start_session_write(id, ureq[r].user[1]))
    /\ UNCHANGED <<rvars, now, ucalls, browser>>

\* login.rs 224-228 and 144-148: login, authenticate_session_with_password on
\* the connection; then the session cookie is set and the browser redirected
Login_authenticate(r) ==
    /\ ureq[r].kind = "login_post" /\ ureq[r].pc = "authenticate"
    /\ LET id == UNewId(ureq[r].call)
           user_session == ureq[r].user_session[1]
           user_password == ureq[r].user_password[1]
       IN \/ /\ LoginFormError(r, "Internal", "authenticate_session_with_password")
             /\ UNCHANGED <<db, browser>>
          \/ /\ db' = UApplyWrite(db, authenticate_session_with_password_write(
                                          id, user_session, user_password))
             /\ browser' = IF ureq[r].from \in Browsers
                           THEN [browser EXCEPT ![ureq[r].from].session =
                                                    Some(user_session.id)]
                           ELSE browser
             /\ UDone(r, "Ok", Some([go_next |-> TRUE, session |-> user_session.id]))
    /\ UNCHANGED <<rvars, now, ucalls>>

LoginStep(r) ==
    \/ Login_get_providers(r)
    \/ Login_lookup(r)
    \/ Login_user(r)
    \/ Login_password(r)
    \/ Login_verify(r)
    \/ Login_add_user_password(r)
    \/ Login_start_session(r)
    \/ Login_authenticate(r)
    \/ Login_load_context(r)
    \/ Login_render(r)

\* logout.rs 29-39: post: pool.begin(), the form verified, the session
\* cookie read
Logout_begin(r, b, cookie_session, form) ==
    /\ ucalls < MaxPageCalls
    /\ ~UInFlight(r)
    /\ ucalls' = ucalls + 1
    /\ LET req == [IdleUReq EXCEPT !.kind = "logout_post", !.call = ucalls + 1,
                                   !.from = b, !.cookie_session = cookie_session,
                                   !.params = Some([form |-> form,
                                                    cookie_session |-> cookie_session])]
       IN \/ ureq' = [ureq EXCEPT ![r] = Finished(req, "Internal", None, Some("begin"))]
          \/ IF ~form.csrf_ok
             THEN ureq' = [ureq EXCEPT ![r] =
                             Finished(req, "Internal", None, Some("verify_form"))]
             ELSE ureq' = [ureq EXCEPT ![r] = [req EXCEPT !.pc = "load_session"]]
    /\ UNCHANGED <<rvars, now, db, browser>>

\* logout.rs 41: load_session
Logout_load_session(r) ==
    /\ ureq[r].kind = "logout_post" /\ ureq[r].pc = "load_session"
    /\ \/ UDbError(r, "load_session")
       \/ \E maybe_session \in load_session(UView(r), ureq[r].cookie_session) :
             IF maybe_session = None
             THEN ureq' = [ureq EXCEPT ![r].pc = "commit"]
             ELSE ureq' = [ureq EXCEPT ![r].pc = "end_session",
                                       ![r].user_session = maybe_session]
    /\ UNCHANGED <<rvars, now, ucalls, db, browser>>

\* logout.rs 43-46: end_session in the transaction, and the session cookie
\* marked as ended
Logout_end_session(r) ==
    /\ ureq[r].kind = "logout_post" /\ ureq[r].pc = "end_session"
    /\ LET user_session == ureq[r].user_session[1]
           res == end_session(UView(r), user_session)
       IN \/ UDbError(r, "end_session")
          \/ IF res # "Ok"
             THEN UDbError(r, "end_session")
             ELSE ureq' = [ureq EXCEPT
                             ![r].pc = "commit",
                             ![r].cookie_session = None,
                             ![r].txn = Append(@, end_session_write(user_session)),
                             ![r].nwrites = @ + 1]
    /\ UNCHANGED <<rvars, now, ucalls, db, browser>>

\* logout.rs 48-56: txn.commit(), and the redirect: to the action of the
\* form, or to the login page, with the session cookie if it was changed
Logout_commit(r) ==
    /\ ureq[r].kind = "logout_post" /\ ureq[r].pc = "commit"
    /\ \/ /\ UDbError(r, "commit")
          /\ UNCHANGED <<db, browser>>
       \/ /\ db' = UApplyWrites(db, ureq[r].txn)
          /\ browser' = IF ureq[r].from \in Browsers /\ ureq[r].user_session # None
                        THEN [browser EXCEPT ![ureq[r].from].session =
                                                 ureq[r].cookie_session]
                        ELSE browser
          /\ UDone(r, "Ok",
                   Some([destination |-> IF ureq[r].params[1].form.action # None
                                         THEN "go_next" ELSE "login",
                         session_cookie |-> ureq[r].cookie_session]))
    /\ UNCHANGED <<rvars, now, ucalls>>

LogoutStep(r) ==
    \/ Logout_load_session(r)
    \/ Logout_end_session(r)
    \/ Logout_commit(r)

\* A store with three users: zoe, who registered through an upstream
\* provider and has a password, yan, who has none, and old, whose password
\* was hashed under the former version of the scheme
PagesDb ==
    [RegisteredDb EXCEPT
       !.users = @ @@ (-1 :> [username |-> "yan", created_at |-> 0])
                   @@ (-2 :> [username |-> "old", created_at |-> 0]),
       !.user_passwords =
          (0 :> [user_id |-> 0, version |-> CurrentVersion,
                 hashed_password |-> HashPassword(CurrentVersion, "pw"),
                 upgraded_from_id |-> None, created_at |-> 0])
          @@ (-2 :> [user_id |-> -2, version |-> 1,
                     hashed_password |-> HashPassword(1, "pw"),
                     upgraded_from_id |-> None, created_at |-> 0])]

\* The browser has the session of zoe, or none
PagesInit ==
    /\ RefreshInit
    /\ ucalls = 0
    /\ ureq = [r \in Reqs |-> IdleUReq]
    /\ db = PagesDb
    /\ \E s \in {None, Some(0)} :
          browser = [b \in Browsers |-> [cookie |-> <<>>, session |-> s]]

\* The pages, one request after the other.  The form of the logout page has
\* maybe a PostAuthAction, and its CSRF token is valid or not; the session
\* cookie of a logout is the one the browser has, or one it had before.
PagesNext ==
    \/ \E b \in Browsers, form \in LoginForms : Login_begin(1, b, form)
    \/ LoginStep(1)
    \/ \E b \in Browsers :
          \E cookie_session \in {browser[b].session}
                                   \cup {Some(i) : i \in DOMAIN db.user_sessions},
             action \in {None, Some("continue")}, csrf_ok \in BOOLEAN :
             Logout_begin(1, b, cookie_session, [action |-> action, csrf_ok |-> csrf_ok])
    \/ LogoutStep(1)
    \/ UTick

----------------------------------------------------------------------------
(* The verification codes of the user emails, called one statement at a time *)

\* Calls of the three storage functions in one behaviour
MaxEmailCalls == 4

\* The codes a caller can ask for
EmailCodes == {"123456", "654321", "000000"}

\* user/mod.rs 867-915: lookup_user_email_verification_code: the values the
\* call can return.  fetch_one takes the first row of the code and the
\* email; of several such rows, any one
lookup_user_email_verification_code(d, user_email, code) ==
    LET ids == {i \in DOMAIN d.user_email_confirmation_codes :
                  /\ d.user_email_confirmation_codes[i].code = code
                  /\ d.user_email_confirmation_codes[i].user_email_id = user_email.id}
        state(res) ==
           IF res.consumed_at # None
             THEN [tag |-> "AlreadyUsed", when |-> res.consumed_at[1]]
           ELSE IF res.expires_at < now THEN [tag |-> "Expired", when |-> res.expires_at]
           ELSE [tag |-> "Valid", when |-> 0]
    IN IF ids = {} THEN {None}
       ELSE {Some([id |-> id, code |-> d.user_email_confirmation_codes[id].code,
                   email |-> user_email,
                   state |-> state(d.user_email_confirmation_codes[id]),
                   created_at |-> d.user_email_confirmation_codes[id].created_at]) :
               id \in ids}

\* user/mod.rs 966-1004: add_user_email_verification_code, the INSERT and
\* the value it returns
add_user_email_verification_code_write(id, user_email, max_age, code) ==
    [op |-> "add_user_email_verification_code", id |-> id,
     row |-> [code |-> code, user_email_id |-> user_email.id, created_at |-> now,
              expires_at |-> now + max_age, consumed_at |-> None]]

add_user_email_verification_code_value(id, user_email, code) ==
    [id |-> id, code |-> code, email |-> user_email,
     state |-> [tag |-> "Valid", when |-> 0], created_at |-> now]

\* user/mod.rs 929-934: consume_email_verification, the check of the state
\* of the value it is given
consume_email_verification(user_email_verification) ==
    IF user_email_verification.state.tag # "Valid" THEN "InvalidOperation" ELSE "Ok"

\* user/mod.rs 936-949: consume_email_verification, the UPDATE
consume_email_verification_write(user_email_verification) ==
    [op |-> "consume_email_verification", id |-> user_email_verification.id,
     consumed_at |-> Some(now)]

\* user/mod.rs 951-953: consume_email_verification, the value it returns
consume_email_verification_value(user_email_verification) ==
    [user_email_verification EXCEPT !.state = [tag |-> "AlreadyUsed", when |-> now]]

\* The UserEmail of the codes
TheUserEmail == [id |-> 0, email |-> "zoe@example.com"]

\* add_user_email_verification_code(&pool, &mut rng, &clock, user_email,
\* max_age, code)
Email_add(r, max_age, code) ==
    /\ ucalls < MaxEmailCalls
    /\ ucalls' = ucalls + 1
    /\ LET id == UNewId(ucalls + 1)
           call == [IdleUReq EXCEPT !.kind = "add_user_email_verification_code",
                                    !.call = ucalls + 1,
                                    !.params = Some([code |-> code, max_age |-> max_age])]
       IN \/ /\ ureq' = [ureq EXCEPT ![r] =
                           Finished(call, "Ok",
                                    Some(add_user_email_verification_code_value(
                                            id, TheUserEmail, code)), None)]
             /\ db' = UApplyWrite(db, add_user_email_verification_code_write(
                                          id, TheUserEmail, max_age, code))
          \/ /\ ureq' = [ureq EXCEPT ![r] =
                           Finished(call, "Internal", None,
                                    Some("add_user_email_verification_code"))]
             /\ db' = db
    /\ UNCHANGED <<rvars, now, browser>>

\* lookup_user_email_verification_code(&pool, &clock, user_email, code)
Email_lookup(r, code) ==
    /\ ucalls < MaxEmailCalls
    /\ ucalls' = ucalls + 1
    /\ LET call == [IdleUReq EXCEPT !.kind = "lookup_user_email_verification_code",
                                    !.call = ucalls + 1,
                                    !.params = Some([code |-> code])]
       IN \/ \E found \in lookup_user_email_verification_code(db, TheUserEmail, code) :
               ureq' = [ureq EXCEPT ![r] = Finished(call, "Ok", found, None)]
          \/ ureq' = [ureq EXCEPT ![r] =
                        Finished(call, "Internal", None,
                                 Some("lookup_user_email_verification_code"))]
    /\ UNCHANGED <<rvars, now, db, browser>>

\* consume_email_verification(&pool, &clock, user_email_verification), with
\* the value the caller got from its lookup or from adding the code
Email_consume(r) ==
    /\ ucalls < MaxEmailCalls
    /\ ureq[r].kind \in {"lookup_user_email_verification_code",
                         "add_user_email_verification_code"}
    /\ ureq[r].result = "Ok" /\ ureq[r].response # None
    /\ ucalls' = ucalls + 1
    /\ LET user_email_verification == ureq[r].response[1]
           call == [IdleUReq EXCEPT !.kind = "consume_email_verification",
                                    !.call = ucalls + 1,
                                    !.params = Some([given |-> user_email_verification])]
           res == consume_email_verification(user_email_verification)
       IN IF res # "Ok"
          THEN /\ ureq' = [ureq EXCEPT ![r] = Finished(call, res, None, None)]
               /\ db' = db
          ELSE \/ /\ ureq' = [ureq EXCEPT ![r] =
                                Finished(call, "Ok",
                                         Some(consume_email_verification_value(
                                                  user_email_verification)), None)]
                  /\ db' = UApplyWrite(db, consume_email_verification_write(
                                               user_email_verification))
               \/ /\ ureq' = [ureq EXCEPT ![r] =
                                Finished(call, "Internal", None,
                                         Some("consume_email_verification"))]
                  /\ db' = db
    /\ UNCHANGED <<rvars, now, browser>>

\* A store with two codes sent to the email: one that expires after the
\* first minute, one that lasts
EmailInit ==
    /\ RefreshInit
    /\ ucalls = 0
    /\ ureq = [r \in Reqs |-> IdleUReq]
    /\ db = [RegisteredDb EXCEPT
               !.user_email_confirmation_codes =
                  (0 :> [code |-> "123456", user_email_id |-> 0, created_at |-> 0,
                         expires_at |-> 0, consumed_at |-> None])
                  @@ (-1 :> [code |-> "654321", user_email_id |-> 0, created_at |-> 0,
                             expires_at |-> 9, consumed_at |-> None])]
    /\ browser = [b \in Browsers |-> [cookie |-> <<>>, session |-> None]]

EmailNext ==
    \/ \E r \in Reqs, max_age \in {0, 1}, code \in EmailCodes : Email_add(r, max_age, code)
    \/ \E r \in Reqs, code \in EmailCodes : Email_lookup(r, code)
    \/ \E r \in Reqs : Email_consume(r)
    \/ UTick

----------------------------------------------------------------------------
(* Client authentication (crates/warp-utils/src/filters/client.rs) *)

\* client.rs 267-289: the configured clients, and the secret of the two
\* confidential ones
ClientSecret == "leek2"

Clients ==
    <<[client_id |-> "public", client_secret |-> None],
      [client_id |-> "confidential", client_secret |-> Some(ClientSecret)],
      [client_id |-> "confidential-2", client_secret |-> Some(ClientSecret)]>>

\* The audience of the endpoint
Audience == "https://example.com/token"

\* The client ids and secrets a request can carry
RequestClientIds == {"public", "confidential", "confidential-2", "unknown"}
RequestSecrets == {ClientSecret, "wrong"}

\* The client assertions a request can carry: a string that is no JWT, or a
\* JWT signed with a key, with its claims
ClientAssertions ==
    {[well_formed |-> FALSE, key |-> "", iss |-> "", sub |-> "", aud |-> ""]}
    \cup {[well_formed |-> TRUE, key |-> k, iss |-> i, sub |-> sb, aud |-> a] :
            k \in RequestSecrets, i \in RequestClientIds, sb \in RequestClientIds,
            a \in {Audience, "https://example.com/other"}}

JwtBearer == "urn:ietf:params:oauth:client-assertion-type:jwt-bearer"

\* The requests: an Authorization header or none, and the fields of the form
ClientRequests ==
    {[header |-> h,
      form |-> [client_id |-> ci, client_secret |-> cs, client_assertion_type |-> ct,
                client_assertion |-> ca, foo |-> "baz", bar |-> "foobar"]] :
        h \in {None, Some([username |-> "confidential", password |-> ClientSecret]),
               Some([username |-> "confidential", password |-> "wrong"]),
               Some([username |-> "public", password |-> ClientSecret]),
               Some([username |-> "unknown", password |-> ClientSecret])},
        ci \in {None} \cup {Some(x) : x \in RequestClientIds},
        cs \in {None} \cup {Some(x) : x \in RequestSecrets},
        ct \in {None, Some(JwtBearer), Some("other")},
        ca \in {None} \cup {Some(x) : x \in ClientAssertions}}

\* client.rs 250-257: the fields of the form that are not credentials
FormBody(form) == [foo |-> form.foo, bar |-> form.bar]

\* client.rs 39-63 and 202-220: the credentials of a request, from the
\* Authorization header if there is one, else from the form, of which the
\* variant Assertion is tried before the variant Pair
ExtractCredentials(request) ==
    IF request.header # None
      THEN Some([variant |-> "Pair", via |-> "AuthorizationHeader",
                 client_id |-> Some(request.header[1].username),
                 client_secret |-> Some(request.header[1].password),
                 client_assertion |-> None])
    ELSE IF /\ request.form.client_assertion_type = Some(JwtBearer)
            /\ request.form.client_assertion # None
      THEN Some([variant |-> "Assertion", via |-> "FormBody",
                 client_id |-> request.form.client_id,
                 client_secret |-> None,
                 client_assertion |-> request.form.client_assertion])
    ELSE IF request.form.client_id # None
      THEN Some([variant |-> "Pair", via |-> "FormBody",
                 client_id |-> request.form.client_id,
                 client_secret |-> request.form.client_secret,
                 client_assertion |-> None])
    ELSE None

\* A variant that reports the secret of a form as no authentication
authentication_type_without_post(credentials) ==
    IF credentials.variant = "Assertion" THEN "ClientSecretJwt"
    ELSE IF credentials.via = "AuthorizationHeader" THEN "ClientSecretBasic"
    ELSE "None"

\* client.rs 228-248: ClientCredentials::authentication_type
authentication_type(credentials) ==
    IF credentials.variant = "Assertion" THEN "ClientSecretJwt"
    ELSE IF credentials.via = "AuthorizationHeader" THEN "ClientSecretBasic"
    ELSE IF credentials.client_secret = None THEN "None"
    ELSE "ClientSecretPost"

\* client.rs 123-128 and 152-157: clients.iter().find(client_id)
FindClient(clients, client_id) ==
    LET ks == {k \in DOMAIN clients : clients[k].client_id = client_id}
    IN IF ks = {} THEN None
       ELSE Some(clients[CHOOSE k \in ks : \A j \in ks : k <= j])

\* A variant that lets a public client in whatever secret it presents
PairError_public_unchecked(client_secret, expected) ==
    IF expected = None THEN ""
    ELSE IF client_secret # None
      THEN (IF client_secret = expected THEN "" ELSE "ClientSecretMismatch")
    ELSE "ClientSecretRequired"

\* client.rs 130-140: the secret given against the secret configured
PairError(client_secret, expected) ==
    IF client_secret = None /\ expected = None THEN ""
    ELSE IF client_secret # None /\ expected # None
      THEN (IF client_secret = expected THEN "" ELSE "ClientSecretMismatch")
    ELSE IF client_secret # None THEN "NoClientSecret"
    ELSE "ClientSecretRequired"

\* A variant that checks the audience of the assertion only
ClaimsError_audience_only(claims, audience, client_id) ==
    IF claims.aud # audience THEN "AudienceMismatch" ELSE ""

\* client.rs 168-181: the audience, the issuer and the subject of the assertion
ClaimsError(claims, audience, client_id) ==
    IF claims.aud # audience THEN "AudienceMismatch"
    ELSE IF claims.iss # claims.sub \/ claims.iss # client_id THEN "InvalidAssertion"
    ELSE ""

\* client.rs 142-187: the arm of a client assertion
AssertionError(clients, audience, credentials) ==
    LET token == credentials.client_assertion[1]
        client_id == IF credentials.client_id # None THEN credentials.client_id[1]
                     ELSE token.sub
        client == FindClient(clients, client_id)
    IN IF ~token.well_formed THEN "WrapError"
       ELSE IF client = None THEN "ClientNotFound"
       ELSE IF client[1].client_secret = None THEN "ClientSecretRequired"
       ELSE IF token.key # client[1].client_secret[1] THEN "WrapError"
       ELSE ClaimsError(token, audience, client_id)

\* client.rs 110-190: authenticate_client
authenticate_client(clients, audience, credentials, body) ==
    LET auth_type == authentication_type(credentials)
        client_id == IF credentials.client_id # None THEN credentials.client_id[1]
                     ELSE credentials.client_assertion[1].sub
        client == FindClient(clients, client_id)
        err == IF credentials.variant = "Pair"
               THEN (IF client = None THEN "ClientNotFound"
                     ELSE PairError(credentials.client_secret, client[1].client_secret))
               ELSE AssertionError(clients, audience, credentials)
    IN IF err # "" THEN [result |-> err, value |-> None]
       ELSE [result |-> "Ok",
             value |-> Some([auth |-> auth_type, client |-> client[1], body |-> body])]

\* client.rs 30-70: client_authentication, the filter
client_authentication(clients, audience, request) ==
    LET credentials == ExtractCredentials(request)
    IN IF credentials = None THEN [result |-> "InvalidForm", value |-> None]
       ELSE authenticate_client(clients, audience, credentials[1], FormBody(request.form))

\* The filter runs on the request that has arrived: what it extracts
ClientAuthentication(r) ==
    /\ ureq[r].kind = "client_auth" /\ ureq[r].pc = "authenticate"
    /\ LET got == client_authentication(Clients, Audience, ureq[r].params[1])
       IN ureq' = [ureq EXCEPT ![r] = Finished(@, got.result, got.value, None)]
    /\ UNCHANGED <<rvars, now, ucalls, db, browser>>

\* A request has arrived at the protected endpoint
ClientInit ==
    /\ RefreshInit
    /\ ucalls = 1
    /\ db = EmptyDb
    /\ browser = [b \in Browsers |-> [cookie |-> <<>>, session |-> None]]
    /\ \E request \in ClientRequests :
          ureq = [r \in Reqs |->
                    IF r = 1
                    THEN [IdleUReq EXCEPT !.kind = "client_auth", !.pc = "authenticate",
                                          !.call = 1, !.params = Some(request)]
                    ELSE IdleUReq]

ClientNext == ClientAuthentication(1)

----------------------------------------------------------------------------
(* The link page, of a link that callbacks have resolved *)

\* The requests that are made to the link page
MaxLinkCalls == 2

\* A store where two browsers have followed the upstream flow for the same
\* subject, up to the redirect to the link page: two users who logged in
\* with a password, one link, bound to the first user or to nobody, and the
\* two sessions the callbacks completed with it
ResolvedDb(link_user) ==
    [sessions |->
        (0 :> [provider_id |-> "P1", link_id |-> Some(0), state |-> 0, nonce |-> 0,
               id_token |-> Some([sub |-> "alice", nonce |-> 0, jti |-> 0]),
               created_at |-> 0, completed_at |-> Some(0), consumed_at |-> None])
        @@ (-1 :> [provider_id |-> "P1", link_id |-> Some(0), state |-> -1, nonce |-> -1,
                   id_token |-> Some([sub |-> "alice", nonce |-> -1, jti |-> -1]),
                   created_at |-> 0, completed_at |-> Some(0), consumed_at |-> None]),
     links |-> (0 :> [provider |-> "P1", subject |-> "alice", user_id |-> link_user,
                      created_at |-> 0]),
     users |-> (0 :> [username |-> "zoe", created_at |-> 0])
               @@ (-1 :> [username |-> "yan", created_at |-> 0]),
     user_sessions |-> (0 :> [user_id |-> 0, created_at |-> 0, finished_at |-> None])
                       @@ (-1 :> [user_id |-> -1, created_at |-> 0, finished_at |-> None]),
     authentications |-> (0 :> [user_session_id |-> 0, link_id |-> None, created_at |-> 0])
                         @@ (-1 :> [user_session_id |-> -1, link_id |-> None,
                                    created_at |-> 0]),
     user_passwords |-> <<>>,
     user_email_confirmation_codes |-> <<>>]

\* The cookie a callback left: the entry of the session, resolved to the link
ResolvedJar(session) ==
    <<[session |-> session, provider |-> "P1", state |-> session, link |-> Some(0)]>>

\* The first browser has the session of the first user, or none
LinkInit ==
    /\ RefreshInit
    /\ ucalls = 0
    /\ ureq = [r \in Reqs |-> IdleUReq]
    /\ \E link_user \in {None, Some(0)} : db = ResolvedDb(link_user)
    /\ \E s \in {None, Some(0)} :
          browser = [b \in Browsers |-> [cookie |-> ResolvedJar(0), session |-> s]]

\* A request of the first browser, with the cookies it has now or with the
\* cookie it had at first (a form sent twice), or of the other browser, which
\* has the session of the second user or none; GET or POST
LinkRequest(r) ==
    /\ ucalls < MaxLinkCalls
    /\ \/ \E b \in Browsers : \E jar \in {browser[b].cookie, ResolvedJar(0)} :
             \/ Link_begin(r, "link_get", b, jar, browser[b].session, 0, None)
             \/ \E form \in Forms :
                   Link_begin(r, "link_post", b, jar, browser[b].session, 0, Some(form))
       \/ \E s \in {None, Some(-1)} :
             \/ Link_begin(r, "link_get", "other", ResolvedJar(-1), s, 0, None)
             \/ \E form \in Forms :
                   Link_begin(r, "link_post", "other", ResolvedJar(-1), s, 0, Some(form))

\* The link page, two requests at a time
LinkNext ==
    \/ \E r \in FreeSlot : LinkRequest(r)
    \/ \E r \in Reqs : LinkStep(r)
    \/ UTick

\* The link page, one request after the other
LinkSeqNext ==
    \/ LinkRequest(1)
    \/ LinkStep(1)
    \/ UTick

----------------------------------------------------------------------------
(* The link page, asked for with the cookies and the links there can be *)

\* The store of ResolvedDb, the link bound, and with it the link of a
\* second subject, and a session that a callback completed with the first
\* link (leaving its cookie entry) and a concurrent callback for the same
\* authorization then completed again, with the second link
TwoLinksDb ==
    [ResolvedDb(Some(0)) EXCEPT
       !.sessions = @ @@
          (1 :> [provider_id |-> "P1", link_id |-> Some(1), state |-> 1, nonce |-> 1,
                 id_token |-> Some([sub |-> "bob", nonce |-> 1, jti |-> 1]),
                 created_at |-> 0, completed_at |-> Some(0), consumed_at |-> None]),
       !.links = @ @@
          (1 :> [provider |-> "P1", subject |-> "bob", user_id |-> None, created_at |-> 0])]

\* The cookie the first of the two callbacks left: the entry of session 1,
\* resolved to the first link
StaleJar == <<[session |-> 1, provider |-> "P1", state |-> 1, link |-> Some(0)]>>

\* The cookies a request can come with: the browser's, the stale one, the
\* one the second of the two callbacks left (the entry of session 1, resolved
\* to the second link), none
RequestJars(b) ==
    {browser[b].cookie, StaleJar,
     <<[session |-> 1, provider |-> "P1", state |-> 1, link |-> Some(1)]>>, <<>>}

ContinuityInit ==
    /\ RefreshInit
    /\ ucalls = 0
    /\ ureq = [r \in Reqs |-> IdleUReq]
    /\ db = TwoLinksDb
    /\ \E s \in {None, Some(0)} :
          browser = [b \in Browsers |-> [cookie |-> ResolvedJar(0), session |-> s]]

\* A GET or POST of the link page of any link (the two links, and an id that
\* no link has), with any of the cookies
AnyLinkRequest(r) ==
    /\ ucalls < MaxLinkCalls
    /\ \E b \in Browsers : \E jar \in RequestJars(b) : \E l \in {0, 1, 9} :
          \/ Link_begin(r, "link_get", b, jar, browser[b].session, l, None)
          \/ \E form \in Forms :
                Link_begin(r, "link_post", b, jar, browser[b].session, l, Some(form))

ContinuityNext ==
    \/ AnyLinkRequest(1)
    \/ LinkStep(1)
    \/ UTick

----------------------------------------------------------------------------
(* Properties of the upstream authorization sessions *)

\* The phase of a session row: 0 Pending, 1 Completed, 2 Consumed; 3 is a
\* row that is consumed and not completed
Phase(row) ==
    IF row.consumed_at # None
    THEN IF row.completed_at # None THEN 2 ELSE 3
    ELSE IF row.completed_at # None THEN 1 ELSE 0

\* C5: State-machine monotonicity.  In every step, every session row stays
\* in the store; a row that was not there before is Pending; a timestamp
\* that is set stays set; the phase only moves Pending -> Completed ->
\* Consumed, never backwards and never from Pending to Consumed.
C5_SessionMonotonic ==
    [][/\ \A i \in DOMAIN db.sessions :
            /\ i \in DOMAIN db'.sessions
            /\ db.sessions[i].completed_at # None => db'.sessions[i].completed_at # None
            /\ db.sessions[i].consumed_at # None => db'.sessions[i].consumed_at # None
            /\ Phase(db'.sessions[i]) \in {0, 1, 2}
            /\ Phase(db.sessions[i]) <= Phase(db'.sessions[i])
            /\ Phase(db.sessions[i]) = 0 => Phase(db'.sessions[i]) \in {0, 1}
       /\ \A i \in DOMAIN db'.sessions \ DOMAIN db.sessions :
            Phase(db'.sessions[i]) = 0]_vars

\* A session that the callback completed and the form of the link page
\* then consumed
C5_Witness ==
    \E r \in Reqs :
        /\ ureq[r].kind = "link_post" /\ ureq[r].result = "Ok"
        /\ \E i \in DOMAIN db.sessions : Phase(db.sessions[i]) = 2

\* C6: In every reachable state of the store, every session row that is
\* consumed is completed, and has a link exactly when it is completed.
C6_SessionRowInvariant ==
    \A i \in DOMAIN db.sessions :
        /\ db.sessions[i].consumed_at # None => db.sessions[i].completed_at # None
        /\ db.sessions[i].link_id # None <=> db.sessions[i].completed_at # None

\* A session that the link page consumed for the user who is logged in
\* (the first arm of the GET), next to a session that is still pending
C6_Witness ==
    /\ \E r \in Reqs :
          /\ ureq[r].kind = "link_get" /\ ureq[r].result = "Ok"
          /\ ureq[r].response # None /\ ureq[r].response[1].page = "already_linked"
    /\ \E i \in DOMAIN db.sessions :
          db.sessions[i].consumed_at # None /\ db.sessions[i].link_id # None

----------------------------------------------------------------------------
(* Properties of the callback *)

\* The callback requests that are past the checks
PastChecks(r) ==
    /\ ureq[r].kind = "callback"
    /\ ureq[r].pc \in {"http_service_discover", "discover", "http_service_fetch_jwks",
                      "fetch_jwks", "http_service_exchange", "exchange",
                      "lookup_link", "add_link", "complete", "commit"}

\* The cookie entry, the query and the row of the session agree
Agreement(r) ==
    LET params == ureq[r].params[1]
        id == ureq[r].session_id[1]
    IN /\ \E k \in DOMAIN ureq[r].jar :
            /\ ureq[r].jar[k].session = id
            /\ ureq[r].jar[k].state = params.state
            /\ ureq[r].jar[k].provider = params.provider_id
       /\ id \in DOMAIN db.sessions
       /\ db.sessions[id].state = params.state
       /\ db.sessions[id].provider_id = params.provider_id

\* The row of the session the cookie entry of a request names has another
\* provider or another state than the request
Mismatch(r) ==
    LET params == ureq[r].params[1]
        id == ureq[r].session_id[1]
    IN /\ id \in DOMAIN db.sessions
       /\ \/ db.sessions[id].state # params.state
          \/ db.sessions[id].provider_id # params.provider_id

\* The step in which callback request r gets its answer
CallbackAnswered(r) ==
    /\ ureq'[r].kind = "callback" /\ ureq'[r].pc = "done"
    /\ \/ ureq[r].pc # "done"
       \/ ureq[r].call # ureq'[r].call

\* C7: Cookie/DB agreement.  A callback goes past its checks, and so
\* completes a session, only when the state of the query, the state of the
\* cookie entry and the state of the row are equal and the provider of the
\* row is the provider of the URL.  A request whose row does not match is
\* rejected with ProviderMismatch or StateMismatch (Internal if the lookup
\* fails), and a request rejected with MissingCookie, ProviderMismatch or
\* StateMismatch has written nothing: the store is as it was.
C7_CookieDbAgreement ==
    /\ [](\A r \in Reqs : PastChecks(r) => Agreement(r))
    /\ [][\A r \in Reqs :
            /\ (CallbackAnswered(r) /\ ureq[r].pc = "lookup" /\ Mismatch(r))
                 => ureq'[r].result \in {"ProviderMismatch", "StateMismatch", "Internal"}
            /\ (CallbackAnswered(r) /\ ureq'[r].result \in
                    {"MissingCookie", "ProviderMismatch", "StateMismatch"})
                 => db' = db /\ ureq'[r].nwrites = 0 /\ browser' = browser
            /\ (CallbackAnswered(r) /\ db' # db)
                 => ureq[r].pc = "commit" /\ Agreement(r) /\ ureq'[r].result = "Ok"]_vars

\* A callback whose state is not the state of the session is rejected, the
\* session still pending and no link in the store
C7_Witness ==
    /\ ureq[1].kind = "callback" /\ ureq[1].result = "StateMismatch"
    /\ ureq[1].nwrites = 0
    /\ db.links = <<>>
    /\ \E i \in DOMAIN db.sessions :
          Phase(db.sessions[i]) = 0 /\ db.sessions[i].state # ureq[1].params[1].state

\* The four checks of the callback, each on its own, for a request whose
\* session was found
FailsCookie(jar, params) ==
    ~\E k \in DOMAIN jar :
        /\ jar[k].provider = params.provider_id
        /\ jar[k].state = params.state
        /\ jar[k].link = None

FailsProvider(r) == db.sessions[ureq[r].session_id[1]].provider_id # ureq[r].params[1].provider_id

FailsState(r) == db.sessions[ureq[r].session_id[1]].state # ureq[r].params[1].state

FailsCompleted(r) == db.sessions[ureq[r].session_id[1]].completed_at # None

\* C8: The callback applies its checks in the order cookie, provider,
\* state, completed: the error it returns is that of the first check that
\* fails in this order, and a request reaches the token exchange only when
\* all four pass.
C8_CheckOrder ==
    [][\A r \in Reqs :
         /\ (ureq'[r].kind = "callback" /\ ureq'[r].call # ureq[r].call)
              => /\ ureq'[r].result = "MissingCookie"
                    => FailsCookie(ureq'[r].jar, ureq'[r].params[1])
                 /\ ureq'[r].pc = "lookup"
                    => ~FailsCookie(ureq'[r].jar, ureq'[r].params[1])
                 /\ ureq'[r].result \in {"MissingCookie", "Internal"} \/ ureq'[r].pc = "lookup"
         /\ (/\ ureq[r].kind = "callback" /\ ureq[r].pc = "lookup"
             /\ ureq'[r].pc # "lookup" /\ ureq'[r].result # "Internal"
             /\ ureq[r].session_id[1] \in DOMAIN db.sessions)
              => /\ ureq'[r].result = "ProviderMismatch" <=> FailsProvider(r)
                 /\ ureq'[r].result = "StateMismatch"
                       <=> ~FailsProvider(r) /\ FailsState(r)
                 /\ ureq'[r].result = "AlreadyCompleted"
                       <=> ~FailsProvider(r) /\ ~FailsState(r) /\ FailsCompleted(r)
                 /\ ureq'[r].pc = "http_service_discover"
                       => ~FailsProvider(r) /\ ~FailsState(r) /\ ~FailsCompleted(r)
                 /\ ureq'[r].pc \in {"http_service_discover", "done"}
         /\ (ureq'[r].kind = "callback" /\ ureq'[r].http_calls # <<>>
             /\ ureq[r].http_calls = <<>>)
              => /\ ureq[r].pc = "discover"
                 /\ ~FailsCookie(ureq[r].jar, ureq[r].params[1])
                 /\ ~FailsProvider(r) /\ ~FailsState(r) /\ ~FailsCompleted(r)]_vars

\* A callback for which the provider check and the state check both fail:
\* it gets ProviderMismatch
C8_Witness ==
    /\ ureq[1].kind = "callback" /\ ureq[1].result = "ProviderMismatch"
    /\ db.sessions # <<>>
    /\ \A i \in DOMAIN db.sessions :
          /\ db.sessions[i].state # ureq[1].params[1].state
          /\ db.sessions[i].provider_id # ureq[1].params[1].provider_id

\* C9: A callback with an error instead of a code, for a pending session
\* that passes the cookie, provider and state checks, returns ClientError
\* with the error and the description the upstream sent (Internal if the
\* lookup fails), makes no request to the upstream, and writes nothing: the
\* session stays pending and no link is created.  No other callback returns
\* ClientError.
C9_ClientError ==
    [][\A r \in Reqs :
         /\ (/\ ureq[r].kind = "callback" /\ ureq[r].pc = "lookup" /\ ureq'[r].pc # "lookup"
             /\ ureq[r].params[1].code_or_error.kind = "Error"
             /\ ureq[r].session_id[1] \in DOMAIN db.sessions
             /\ ~FailsProvider(r) /\ ~FailsState(r) /\ ~FailsCompleted(r))
              => /\ ureq'[r].pc = "done"
                 /\ ureq'[r].result \in {"ClientError", "Internal"}
                 /\ ureq'[r].result = "ClientError" =>
                       /\ ureq'[r].response # None
                       /\ ureq'[r].response[1].error = ureq[r].params[1].code_or_error.error
                       /\ ureq'[r].response[1].error_description =
                             ureq[r].params[1].code_or_error.error_description
                 /\ ureq'[r].http_calls = <<>>
                 /\ ureq'[r].nwrites = 0
                 /\ db' = db
                 /\ Phase(db'.sessions[ureq[r].session_id[1]]) = 0
         /\ (CallbackAnswered(r) /\ ureq'[r].result = "ClientError")
              => /\ ureq[r].pc = "lookup"
                 /\ ureq[r].params[1].code_or_error.kind = "Error"]_vars

\* A callback that carried an error and its description got ClientError,
\* the session still pending and no link in the store
C9_Witness ==
    /\ ureq[1].kind = "callback" /\ ureq[1].result = "ClientError"
    /\ ureq[1].response[1].error = "server_error"
    /\ ureq[1].response[1].error_description # None
    /\ ureq[1].http_calls = <<>>
    /\ db.links = <<>>
    /\ \E i \in DOMAIN db.sessions :
          Phase(db.sessions[i]) = 0 /\ db.sessions[i].state = ureq[1].params[1].state

\* C10: complete_session fails when the session is already completed: the
\* call on a session whose stored row has completed_at set returns an
\* error, and the commit of the request that made the call leaves link_id,
\* completed_at and id_token of the row as they were.
C10_CompleteFailsOnCompleted ==
    [][\A r \in Reqs :
         /\ (/\ ureq[r].kind = "callback" /\ ureq[r].pc = "complete"
             /\ ureq'[r].pc # "complete"
             /\ db.sessions[ureq[r].session[1].id].completed_at # None)
              => ureq'[r].pc = "done" /\ ureq'[r].result = "Internal"
         /\ (/\ ureq[r].kind = "callback" /\ ureq[r].pc = "commit"
             /\ db.sessions[ureq[r].session[1].id].completed_at # None)
              => db'.sessions[ureq[r].session[1].id] = db.sessions[ureq[r].session[1].id]]_vars

----------------------------------------------------------------------------
(* Properties of the links *)

\* C11: In every reachable state there is at most one link of a provider
\* and a subject, also after two callbacks of the same subject that both
\* found no link.
C11_OneLinkPerSubject ==
    \A i, j \in DOMAIN db.links :
        (db.links[i].provider = db.links[j].provider
           /\ db.links[i].subject = db.links[j].subject) => i = j

\* Two callbacks of one subject ran at the same time and both went on to
\* add the link: one has added it, the other was refused
C11_Witness ==
    /\ ureq[1].kind = "callback" /\ ureq[2].kind = "callback"
    /\ ureq[1].call # 0 /\ ureq[2].call # 0
    /\ \E r \in Reqs :
          /\ ureq[r].result = "Ok"
          /\ ureq[r].response[1].redirect_to_link \in DOMAIN db.links
          /\ ureq[r].response[1].redirect_to_link = ureq[r].call
    /\ \E r \in Reqs : ureq[r].db_error = Some("add_link")

\* C12: A callback whose add_link is refused because a link of the provider
\* and the subject is in the store already does not end in an Internal
\* error: it goes on, to complete its session with that link.
C12_LoserRetriesLookup ==
    [][\A r \in Reqs :
         (/\ ureq[r].kind = "callback" /\ ureq[r].pc = "add_link"
          /\ ureq'[r].pc # "add_link"
          /\ LinkKeyTaken(db, ureq[r].provider[1], ureq[r].subject[1]))
           => /\ ureq'[r].result # "Internal"
              /\ ureq'[r].pc = "complete"
              /\ ureq'[r].link = lookup_link_by_subject(db, ureq[r].provider[1],
                                                        ureq[r].subject[1])]_vars

----------------------------------------------------------------------------
(* Properties of the link page *)

\* The step in which link request r commits: the POST then answers, the GET
\* goes on to render its page
LinkCommitted(r) ==
    /\ ureq[r].kind \in {"link_get", "link_post"} /\ ureq[r].pc = "commit"
    /\ \/ ureq'[r].pc = "done" /\ ureq'[r].result = "Ok"
       \/ ureq'[r].pc = "render"

\* The step in which link request r, which has consumed a session, answers
LinkSucceeded(r) ==
    /\ ureq'[r].pc = "done" /\ ureq'[r].result = "Ok"
    /\ \/ ureq[r].kind = "link_post" /\ ureq[r].pc = "commit"
       \/ ureq[r].kind = "link_get" /\ ureq[r].pc = "render" /\ ureq[r].arm = "consume"

\* The authentications through an upstream link
UpstreamAuthentications(d) ==
    {a \in DOMAIN d.authentications : d.authentications[a].link_id # None}

\* C13: Of two link requests that race to consume one completed session at
\* most one succeeds: a request commits only while the stored session is
\* not consumed, so that the session is consumed once and one
\* authentication is made from it.
C13_ConsumedByOne ==
    [][\A r \in Reqs :
         LinkCommitted(r) =>
            db.sessions[ureq[r].session[1].id].consumed_at = None]_vars

\* What a link request has found when it chooses its arm: the link of the
\* URL, as lookup_link returned it, bound to a user or to nobody; the user of
\* the session cookie, if any, as the store has it when load_session runs
ReqLinkUser(r) == ureq[r].link[1].user_id

ReqSessionUser(r) ==
    LET c == ureq[r].cookie_session
    IN IF c # None /\ c[1] \in DOMAIN db.user_sessions
          /\ db.user_sessions[c[1]].finished_at = None
       THEN Some(db.user_sessions[c[1]].user_id)
       ELSE None

\* What lookup_session_on_link finds: the session of the cookie, on the link
\* of the URL, consumed or not
ReqUpstreamFound(r) ==
    /\ ureq[r].params[1].link_id \in DOMAIN db.links
    /\ ureq[r].session_id[1] \in DOMAIN db.sessions
    /\ db.sessions[ureq[r].session_id[1]].link_id = Some(ureq[r].params[1].link_id)

ReqUpstreamUnconsumed(r) ==
    ReqUpstreamFound(r) /\ db.sessions[ureq[r].session_id[1]].consumed_at = None

\* The step in which link request r, past its checks, loads the user session
\* and chooses its arm
LinkLoads(r, kind) ==
    ureq[r].kind = kind /\ ureq[r].pc = "load_session" /\ ureq'[r].pc # "load_session"

\* The first row of the decision table: a session of the user of the link
SameUserRow(r) ==
    /\ ReqSessionUser(r) # None /\ ReqLinkUser(r) # None
    /\ ReqSessionUser(r) = ReqLinkUser(r)

\* The page of the row of the decision table
RowPage(r) ==
    IF ReqSessionUser(r) # None /\ ReqLinkUser(r) # None THEN "link_mismatch"
    ELSE IF ReqSessionUser(r) # None THEN "suggest_link"
    ELSE IF ReqLinkUser(r) # None THEN "do_login"
    ELSE "do_register"

\* C14: A GET of the link page in any row of the decision table but the
\* first (another user's session, an unbound link, no session) takes the
\* arm of its row, and from there every step of it changes nothing: it
\* writes nothing, the session stays unconsumed, there is no new
\* authentication, user, browser session or link, no link is changed, and it
\* ends with the page of its row (Internal if a call fails).
C14_GetReadOnly ==
    [][\A r \in Reqs :
         /\ (LinkLoads(r, "link_get") /\ ~SameUserRow(r))
              => /\ ureq'[r].pc = "done" => ureq'[r].result = "Internal"
                 /\ ureq'[r].pc # "done"
                      => ureq'[r].arm = RowPage(r) /\ ureq'[r].pc \in {"lookup_user", "render"}
                 /\ db' = db /\ browser' = browser
         /\ (/\ ureq[r].kind = "link_get" /\ ureq[r].arm \notin {"", "consume"}
             /\ ureq'[r] # ureq[r])
              => /\ ureq'[r].pc = "done" => ureq'[r].result \in {"Ok", "Internal"}
                 /\ ureq'[r].result = "Ok" => ureq'[r].response[1].page = ureq[r].arm
                 /\ ureq'[r].pc # "done"
                      => ureq'[r].arm = ureq[r].arm /\ ureq'[r].pc \in {"lookup_user", "render"}
                 /\ ureq'[r].nwrites = 0
                 /\ db' = db
                 /\ browser' = browser]_vars

\* A GET by the session of another user than the link's got the page of
\* the mismatch, and the store is as it was
C14_Witness ==
    /\ \E r \in Reqs :
          /\ ureq[r].kind = "link_get" /\ ureq[r].result = "Ok"
          /\ ureq[r].response[1].page = "link_mismatch"
    /\ db = ResolvedDb(Some(0))

\* The authentications a step adds
NewAuthentications == DOMAIN db'.authentications \ DOMAIN db.authentications

\* C15: A GET of the link page by a session of the user of the link, with
\* the upstream session unconsumed, goes on to consume it; its commit, in
\* one step, stamps the upstream session consumed and adds one
\* authentication of that session through the link, and changes nothing
\* else; no other step of the request changes the store.
C15_GetAutoLink ==
    [][\A r \in Reqs :
         /\ (LinkLoads(r, "link_get") /\ SameUserRow(r))
              => \/ ureq'[r].pc = "consume"
                 \/ ureq'[r].pc = "done" /\ ureq'[r].result = "Internal"
         /\ (LinkCommitted(r) /\ ureq[r].kind = "link_get")
              => /\ db'.sessions[ureq[r].session[1].id].consumed_at # None
                 /\ ureq[r].cookie_session = Some(ureq[r].user_session[1].id)
                 /\ \E a \in NewAuthentications :
                       /\ NewAuthentications = {a}
                       /\ db'.authentications[a].user_session_id = ureq[r].cookie_session[1]
                       /\ db'.authentications[a].link_id = Some(ureq[r].params[1].link_id)
                 /\ db'.users = db.users /\ db'.links = db.links
                 /\ db'.user_sessions = db.user_sessions
                 /\ DOMAIN db'.sessions = DOMAIN db.sessions
                 /\ \A i \in DOMAIN db.sessions \ {ureq[r].session[1].id} :
                       db'.sessions[i] = db.sessions[i]
         /\ (ureq[r].kind = "link_get" /\ ureq'[r] # ureq[r] /\ ~LinkCommitted(r))
              => /\ db' = db
                 /\ browser' # browser => LinkSucceeded(r)
         /\ (ureq'[r].kind = "link_get" /\ ureq'[r].call # ureq[r].call)
              => db' = db /\ browser' = browser]_vars

\* A GET by the session of the user of the link has committed: the
\* upstream session is consumed and the session has one authentication
\* through the link
C15_Witness ==
    /\ \E r \in Reqs :
          /\ ureq[r].kind = "link_get" /\ ureq[r].result = "Ok"
          /\ ureq[r].response[1].page = "already_linked"
          /\ ureq[r].response[1].session.last_authentication = Some(ureq[r].call)
    /\ db.sessions[0].consumed_at # None
    /\ Cardinality(UpstreamAuthentications(db)) = 1
    /\ \A a \in UpstreamAuthentications(db) : db.authentications[a].user_session_id = 0

\* The three combinations the form of the link page is accepted for
ValidCombination(r) ==
    LET action == ureq[r].params[1].form[1].action
    IN \/ ReqSessionUser(r) # None /\ ReqLinkUser(r) = None /\ action = "Link"
       \/ ReqSessionUser(r) = None /\ ReqLinkUser(r) # None /\ action = "Login"
       \/ ReqSessionUser(r) = None /\ ReqLinkUser(r) = None /\ action = "Register"

\* The first statement of each of the three arms of the POST
FirstOfArm == {"associate", "lookup_user", "add_user"}

\* C16: A POST of the link page, its upstream session found and not
\* consumed, goes on to its writes only for (session, unbound link, link),
\* (no session, bound link, login) and (no session, unbound link,
\* register); for every other combination it returns InvalidFormAction
\* (Internal if a lookup fails) and changes nothing.  A POST succeeds only
\* through these writes.
C16_PostCombinations ==
    [][\A r \in Reqs :
         /\ LinkLoads(r, "link_post")
              => /\ ValidCombination(r)
                    => ureq'[r].pc \in FirstOfArm \/ ureq'[r].result = "Internal"
                 /\ ~ValidCombination(r)
                    => /\ ureq'[r].pc = "done"
                       /\ ureq'[r].result \in {"InvalidFormAction", "Internal"}
                       /\ ureq'[r].nwrites = 0
                       /\ db' = db /\ browser' = browser
         /\ (ureq'[r].kind = "link_post" /\ ureq'[r].arm # "" /\ ureq[r].arm = "")
              => ureq[r].pc = "load_session" /\ ValidCombination(r)
         /\ (ureq'[r].kind = "link_post" /\ ureq'[r].pc = "consume" /\ ureq[r].pc # "consume")
              => ureq[r].pc \in {"associate", "start_session"} /\ ureq[r].arm # ""
         /\ (ureq'[r].kind = "link_post" /\ ureq'[r].pc = "authenticate"
             /\ ureq[r].pc # "authenticate")
              => ureq[r].pc = "consume"
         /\ (ureq'[r].kind = "link_post" /\ ureq'[r].pc = "commit" /\ ureq[r].pc # "commit")
              => ureq[r].pc = "authenticate"
         /\ (ureq'[r].kind = "link_post" /\ ureq'[r].result = "Ok" /\ ureq[r].result # "Ok")
              => ureq[r].pc = "commit"
         /\ (ureq'[r].kind = "link_post" /\ ureq'[r].result = "InvalidFormAction"
             /\ ureq[r].result # "InvalidFormAction")
              => ureq[r].pc = "load_session" /\ ~ValidCombination(r)]_vars

\* The form with action=link, sent by the session of another user than the
\* one the link is bound to, got InvalidFormAction, and the store is as it was
C16_Witness ==
    /\ \E r \in Reqs :
          /\ ureq[r].kind = "link_post" /\ ureq[r].result = "InvalidFormAction"
          /\ ureq[r].from = "other"
          /\ ureq[r].params[1].form[1].action = "Link"
    /\ db = ResolvedDb(Some(0))

\* The sessions that are consumed
ConsumedSessions(d) == {i \in DOMAIN d.sessions : d.sessions[i].consumed_at # None}

\* C17: Replay guard.  A GET or POST of the link page whose upstream
\* session is consumed returns SessionConsumed (Internal if a lookup fails)
\* and changes nothing; so, with one request after the other, the stamp of
\* a consumed session is never written again and there are never more
\* authentications through a link than consumed sessions.
C17_ReplayGuard ==
    /\ [](Cardinality(UpstreamAuthentications(db)) <= Cardinality(ConsumedSessions(db)))
    /\ [][/\ \A r \in Reqs :
               (/\ ureq[r].kind \in {"link_get", "link_post"}
                /\ ureq[r].pc = "lookup_session" /\ ureq'[r].pc # "lookup_session"
                /\ ReqUpstreamFound(r) /\ ~ReqUpstreamUnconsumed(r))
                 => /\ ureq'[r].pc = "done"
                    /\ ureq'[r].result \in {"SessionConsumed", "Internal"}
                    /\ ureq'[r].nwrites = 0
                    /\ db' = db /\ browser' = browser
          /\ \A i \in ConsumedSessions(db) :
               /\ db'.sessions[i].consumed_at = db.sessions[i].consumed_at
               /\ Cardinality(UpstreamAuthentications(db'))
                    - Cardinality(UpstreamAuthentications(db))
                  <= Cardinality(ConsumedSessions(db')) - Cardinality(ConsumedSessions(db))]_vars

\* A minute after a request consumed the session, a second request for it
\* got SessionConsumed; there is one authentication through the link
C17_Witness ==
    /\ ureq[1].kind \in {"link_get", "link_post"} /\ ureq[1].result = "SessionConsumed"
    /\ ureq[1].call = 2
    /\ \E i \in ConsumedSessions(db) : db.sessions[i].consumed_at[1] < now
    /\ Cardinality(UpstreamAuthentications(db)) = 1

\* The requests that carry the form with action=register
IsRegister(q) ==
    q.kind = "link_post" /\ q.params[1].form[1].action = "Register"

\* C18: The commit of a POST with action=register and username u, in one
\* step, adds a user named u, binds the link, which was unbound, to that
\* user, adds a browser session of that user with an authentication through
\* the link, sets the session cookie to it, and stamps the upstream session,
\* which was not consumed, consumed; no other step of the request changes
\* the store.
C18_Register ==
    [][\A r \in Reqs :
         /\ (LinkCommitted(r) /\ IsRegister(ureq[r]))
              => LET link == ureq[r].params[1].link_id
                     sid == ureq[r].session[1].id
                 IN /\ ureq[r].cookie_session = None \/ ReqSessionUser(r) = None
                    /\ db.links[link].user_id = None
                    /\ db.sessions[sid].consumed_at = None
                    /\ db'.sessions[sid].consumed_at # None
                    /\ \E u \in DOMAIN db'.users \ DOMAIN db.users :
                          /\ DOMAIN db'.users = DOMAIN db.users \cup {u}
                          /\ db'.users[u].username = ureq[r].params[1].form[1].username
                          /\ db'.links[link].user_id = Some(u)
                          /\ \E bs \in DOMAIN db'.user_sessions \ DOMAIN db.user_sessions :
                                /\ DOMAIN db'.user_sessions = DOMAIN db.user_sessions \cup {bs}
                                /\ db'.user_sessions[bs].user_id = u
                                /\ db'.user_sessions[bs].finished_at = None
                                /\ \E a \in NewAuthentications :
                                      /\ NewAuthentications = {a}
                                      /\ db'.authentications[a].user_session_id = bs
                                      /\ db'.authentications[a].link_id = Some(link)
                                /\ ureq[r].from \in Browsers
                                      => browser'[ureq[r].from].session = Some(bs)
         /\ (IsRegister(ureq[r]) /\ ureq'[r] # ureq[r] /\ ~LinkCommitted(r))
              => db' = db /\ browser' = browser
         /\ (IsRegister(ureq'[r]) /\ ureq'[r].call # ureq[r].call)
              => db' = db /\ browser' = browser]_vars

\* The form with action=register and username ann has been accepted: the
\* link is bound to the new user ann, who has a browser session
C18_Witness ==
    /\ \E r \in Reqs : IsRegister(ureq[r]) /\ ureq[r].result = "Ok"
    /\ db.links[0].user_id # None
    /\ db.links[0].user_id[1] \notin {0, -1}
    /\ db.users[db.links[0].user_id[1]].username = "ann"
    /\ \E bs \in DOMAIN db.user_sessions : db.user_sessions[bs].user_id = db.links[0].user_id[1]

\* C19: The user of a link is written once.  A step never changes the user
\* of a link that has one, and associate_link_to_user on a link that has a
\* user fails: the request ends in an error; also when two forms, sent by
\* two users for one unbound link, run at the same time.
C19_LinkUserWriteOnce ==
    [][/\ \A l \in DOMAIN db.links :
            db.links[l].user_id # None =>
               l \in DOMAIN db'.links /\ db'.links[l].user_id = db.links[l].user_id
       /\ \A r \in Reqs :
            (/\ ureq[r].kind = "link_post"
             /\ ureq[r].pc = "associate" /\ ureq'[r].pc # "associate"
             /\ ureq[r].arm \in {"Link", "Register"}
             /\ db.links[ureq[r].params[1].link_id].user_id # None)
              => ureq'[r].pc = "done" /\ ureq'[r].result = "Internal"]_vars

\* Two forms with action=link, of two users, for the unbound link, ran at the
\* same time: one has bound the link to its user, the other was refused
C19_Witness ==
    /\ ureq[1].kind = "link_post" /\ ureq[2].kind = "link_post"
    /\ ureq[1].from # ureq[2].from
    /\ ureq[1].params[1].form[1].action = "Link"
    /\ ureq[2].params[1].form[1].action = "Link"
    /\ \E r \in Reqs : ureq[r].result = "Ok"
    /\ \E r \in Reqs : ureq[r].db_error = Some("associate_link_to_user")
    /\ db.links[0].user_id # None

\* C20: When the token response of the provider has no ID token, the
\* callback fails with MissingIDToken, and it writes nothing: the session
\* is not completed and no link is added.
C20_MissingIDToken ==
    [][\A r \in Reqs :
         (/\ CallbackAnswered(r) /\ ureq[r].pc = "exchange"
          /\ ureq'[r].http_calls = <<"discover", "fetch_jwks", "token_request">>
          /\ ureq'[r].db_error = Some("MissingIdToken"))
           => /\ ureq'[r].result = "MissingIDToken"
              /\ db' = db]_vars

----------------------------------------------------------------------------
(* Properties of the refresh endpoint's answers *)

\* The two tables of the compat tokens
CompatTables == <<compat_refresh_tokens, compat_access_tokens>>

\* C21: A refresh request whose token string is malformed or has the
\* prefix of another type is answered M_UNKNOWN_TOKEN in the very step it
\* begins with: no transaction is opened for it and no lookup is made.
C21_RejectedBeforeDb ==
    [][\A r \in Reqs :
         (/\ rreq'[r].call # rreq[r].call
          /\ TokenCheck(rreq'[r].input[1]) # "CompatRefreshToken")
           => /\ rreq'[r].pc = "done"
              /\ rreq'[r].result = "InvalidToken"
              /\ rreq'[r].response[1].errcode = "M_UNKNOWN_TOKEN"]_vars

\* The answer to InvalidToken
InvalidTokenResponse ==
    [errcode |-> "M_UNKNOWN_TOKEN", error |-> "Invalid refresh token", status |-> 401]

\* A token string no refresh can be made with: malformed, of another type
\* (an access token, expired or not), unknown, or consumed
Unusable(tok) ==
    \/ TokenCheck(tok) # "CompatRefreshToken"
    \/ \A i \in DOMAIN compat_refresh_tokens :
          compat_refresh_tokens[i].token = tok => compat_refresh_tokens[i].consumed_at # None

\* C22: The answer of the refresh endpoint to an unusable token does not
\* tell why it is unusable: whether the string is malformed, of another
\* type, unknown or consumed, the request ends at its check with
\* InvalidToken, answered M_UNKNOWN_TOKEN and 401, the same record in every
\* case, and leaves the store as it is.  (Internal, 500, only when the
\* call of the database fails.)
C22_FailureTellsNothing ==
    /\ [](\A r \in Reqs :
            (rreq[r].pc = "done" /\ rreq[r].result = "InvalidToken")
              => rreq[r].response = Some(InvalidTokenResponse))
    /\ [][\A r \in Reqs :
            (/\ rreq[r].pc = "lookup" /\ rreq'[r] # rreq[r]
             /\ Unusable(rreq[r].input[1]))
              => /\ rreq'[r].pc = "done"
                 /\ CompatTables' = CompatTables
                 /\ \/ /\ rreq'[r].result = "InvalidToken"
                       /\ rreq'[r].response = Some(InvalidTokenResponse)
                    \/ /\ rreq'[r].result = "Internal"
                       /\ rreq'[r].db_error = Some("lookup")]_vars

\* Two requests have been answered, one given a malformed string and one a
\* consumed refresh token: the two answers are the same
C22_Witness ==
    /\ rreq[1].pc = "done" /\ rreq[2].pc = "done"
    /\ rreq[1].result = "InvalidToken" /\ rreq[2].result = "InvalidToken"
    /\ rreq[1].response = rreq[2].response
    /\ TokenCheck(rreq[1].input[1]) = "TokenFormatError"
    /\ TokenCheck(rreq[2].input[1]) = "CompatRefreshToken"
    /\ TokenConsumed(rreq[2].input[1])

\* The session of the refresh token with this string
SessionOfToken(tok) ==
    LET i == CHOOSE i \in DOMAIN compat_refresh_tokens : compat_refresh_tokens[i].token = tok
    IN compat_refresh_tokens[i].session

----------------------------------------------------------------------------
(* Properties of the answers of the upstream flow *)

\* C24: The errors of a state violation are answered in the 4xx class:
\* AlreadyCompleted of the callback, SessionConsumed and InvalidFormAction
\* of the link page all have a status from 400 to 499.
C24_StateViolations4xx ==
    \A r \in Reqs :
        (/\ ureq[r].pc = "done"
         /\ \/ ureq[r].kind = "callback" /\ ureq[r].result = "AlreadyCompleted"
            \/ /\ ureq[r].kind \in {"link_get", "link_post"}
               /\ ureq[r].result \in {"SessionConsumed", "InvalidFormAction"})
          => ureq[r].status \in 400..499

----------------------------------------------------------------------------
(* Properties of the browser sessions *)

\* The step in which the storage function `kind` is called for request r
StoreCalled(r, kind) ==
    ureq'[r].kind = kind /\ ureq'[r].call # ureq[r].call

\* C25: end_session succeeds only when its UPDATE touched exactly one row.
\* Called with a session id that no row has, it returns an Inconsistency
\* error and the store is as it was; when it succeeds, finished_at of the
\* session is set to the time of the call, no other row is changed, and
\* lookup_active_session does not return the session, then or later.
C25_EndSession ==
    [][/\ \A r \in Reqs :
            StoreCalled(r, "end_session") =>
               LET id == ureq'[r].params[1].id
               IN /\ ureq'[r].result \in {"Ok", "Inconsistency", "Internal"}
                  /\ id \notin DOMAIN db.user_sessions
                       => ureq'[r].result \in {"Inconsistency", "Internal"}
                  /\ ureq'[r].result # "Ok" => db' = db
                  /\ ureq'[r].result = "Ok"
                       => /\ id \in DOMAIN db.user_sessions
                          /\ db' = [db EXCEPT !.user_sessions[id].finished_at = Some(now)]
                          /\ lookup_active_session(db', id) = {None}
       /\ \A r \in Reqs :
            (/\ StoreCalled(r, "lookup_active_session")
             /\ ureq'[r].result = "Ok"
             /\ ureq'[r].params[1].id \in DOMAIN db.user_sessions
             /\ db.user_sessions[ureq'[r].params[1].id].finished_at # None)
              => ureq'[r].response = Some(None)
       /\ \A i \in DOMAIN db.user_sessions :
            db.user_sessions[i].finished_at # None
              => db'.user_sessions[i].finished_at # None]_vars

\* end_session has failed with Inconsistency for an id without a row, and a
\* lookup_active_session of the session that was ended has returned nothing
C25_Witness ==
    /\ ureq[1].kind = "end_session" /\ ureq[1].result = "Inconsistency"
    /\ ureq[1].params[1].id \notin DOMAIN db.user_sessions
    /\ ureq[2].kind = "lookup_active_session" /\ ureq[2].result = "Ok"
    /\ ureq[2].params[1].id = 0
    /\ ureq[2].response = Some(None)
    /\ db.user_sessions[0].finished_at # None

----------------------------------------------------------------------------
(* Properties of the Pending-Session Set *)

\* C27: Entries of the Pending-Session Set are removed once consumed: the
\* cookie a browser gets back from a request that consumed an upstream
\* session, the GET of the first row as well as an accepted POST, has no
\* entry of that session.
C27_ConsumedEntryRemoved ==
    [][\A r \in Reqs :
         (LinkSucceeded(r) /\ ureq[r].from \in Browsers)
           => \A k \in DOMAIN browser'[ureq[r].from].cookie :
                 browser'[ureq[r].from].cookie[k].session # ureq[r].session[1].id]_vars

----------------------------------------------------------------------------
(* Properties of the client authentication *)

\* The request of slot 1 was authenticated
ClientOk == ureq[1].kind = "client_auth" /\ ureq[1].result = "Ok"

\* How the credentials of a request were presented
InHeader(request) == request.header # None

AsAssertion(request) ==
    /\ request.header = None
    /\ request.form.client_assertion_type = Some(JwtBearer)
    /\ request.form.client_assertion # None

InForm(request) ==
    ~InHeader(request) /\ ~AsAssertion(request) /\ request.form.client_id # None

\* C28: Client authentication reports the method from how the credentials
\* were presented: ClientSecretBasic for the Authorization header (which
\* goes before the form), ClientSecretJwt for a client assertion in the
\* form, ClientSecretPost for client_id and client_secret in the form, None
\* for client_id alone.  The client returned is the configured client of
\* that client_id, and the other fields of the form are returned as they are.
C28_AuthenticationMethod ==
    ClientOk =>
       LET request == ureq[1].params[1]
           got == ureq[1].response[1]
       IN /\ InHeader(request) \/ AsAssertion(request) \/ InForm(request)
          /\ InHeader(request) =>
                /\ got.auth = "ClientSecretBasic"
                /\ got.client.client_id = request.header[1].username
          /\ AsAssertion(request) => got.auth = "ClientSecretJwt"
          /\ InForm(request) =>
                /\ got.client.client_id = request.form.client_id[1]
                /\ got.auth = IF request.form.client_secret # None
                              THEN "ClientSecretPost" ELSE "None"
          /\ \E k \in DOMAIN Clients : Clients[k] = got.client
          /\ got.body = [foo |-> request.form.foo, bar |-> request.form.bar]

\* The confidential client has authenticated with its id and secret in the
\* form, and foo and bar of the form came back
C28_Witness ==
    /\ ClientOk
    /\ ureq[1].params[1].header = None
    /\ ureq[1].response[1].auth = "ClientSecretPost"
    /\ ureq[1].response[1].client.client_id = "confidential"
    /\ ureq[1].response[1].body = [foo |-> "baz", bar |-> "foobar"]

\* The conditions on a client assertion for the client id it is used with
AssertionAccepted(token, client_id) ==
    /\ token.well_formed
    /\ \E k \in DOMAIN Clients :
          /\ Clients[k].client_id = client_id
          /\ Clients[k].client_secret # None
          /\ token.key = Clients[k].client_secret[1]
    /\ token.aud = Audience
    /\ token.iss = client_id /\ token.sub = client_id

\* C29: A client assertion authenticates exactly when the client is known
\* and has a secret, the signature verifies with that secret, the audience
\* is the audience of the endpoint and issuer = subject = client_id, where
\* client_id is the one of the request or, when the request has none, the
\* subject of the assertion; the client returned is that client.  So an
\* assertion sent with a client_id other than its issuer and subject is
\* rejected.
C29_ClientAssertion ==
    (/\ ureq[1].kind = "client_auth" /\ ureq[1].pc = "done"
     /\ AsAssertion(ureq[1].params[1])) =>
       LET form == ureq[1].params[1].form
           token == form.client_assertion[1]
           client_id == IF form.client_id # None THEN form.client_id[1] ELSE token.sub
       IN /\ ureq[1].result = "Ok" <=> AssertionAccepted(token, client_id)
          /\ ureq[1].result = "Ok" => ureq[1].response[1].client.client_id = client_id
          /\ (form.client_id # None /\ token.well_formed
              /\ (form.client_id[1] # token.iss \/ form.client_id[1] # token.sub))
               => ureq[1].result # "Ok"

\* An assertion of the confidential client, sent without client_id, has
\* authenticated it
C29_Witness ==
    /\ ClientOk
    /\ AsAssertion(ureq[1].params[1])
    /\ ureq[1].params[1].form.client_id = None
    /\ ureq[1].response[1].auth = "ClientSecretJwt"
    /\ ureq[1].response[1].client.client_id = "confidential"

----------------------------------------------------------------------------
(* Properties of the browser that asks for the link page *)

\* The cookie has an entry that maps the link to a session
JarMaps(jar, link_id, session_id) ==
    \E k \in DOMAIN jar : jar[k].link = Some(link_id) /\ jar[k].session = session_id

\* The cookie of request q maps its link to a session whose row is on that link
Continuous(q) ==
    \E i \in DOMAIN db.sessions :
        /\ JarMaps(q.jar, q.params[1].link_id, i)
        /\ db.sessions[i].link_id = Some(q.params[1].link_id)

\* C30: Browser continuity.  A GET or POST of the link page of link L gets
\* past its checks only if the cookie of the request has an entry that maps
\* L to a session and the row of that session has link_id L.  A request
\* without such an entry ends with MissingCookie, one whose session is not
\* on L with SessionNotFound (Internal if a call fails), and neither
\* changes anything.  So a session is consumed only by a request whose
\* cookie has the entry of that session, resolved to the link of its row.
C30_BrowserContinuity ==
    [][\A r \in Reqs :
         /\ (ureq'[r].kind \in {"link_get", "link_post"} /\ ureq'[r].call # ureq[r].call)
              => /\ db' = db /\ browser' = browser
                 /\ ureq'[r].pc = "lookup"
                      => JarMaps(ureq'[r].jar, ureq'[r].params[1].link_id,
                                 ureq'[r].session_id[1])
                 /\ (\A i \in DOMAIN db.sessions :
                        ~JarMaps(ureq'[r].jar, ureq'[r].params[1].link_id, i))
                      => /\ ureq'[r].pc = "done"
                         /\ ureq'[r].result \in {"MissingCookie", "Internal"}
         /\ (ureq[r].kind \in {"link_get", "link_post"} /\ ureq[r].pc = "lookup"
             /\ ureq'[r].pc # "lookup")
              => /\ ureq'[r].pc = "lookup_session"
                      \/ /\ ureq'[r].pc = "done"
                         /\ ureq'[r].result \in {"LinkNotFound", "Internal"}
                 /\ db' = db /\ browser' = browser
         /\ (ureq[r].kind \in {"link_get", "link_post"} /\ ureq[r].pc = "lookup_session"
             /\ ureq'[r].pc # "lookup_session")
              => /\ ureq'[r].pc # "done"
                      => /\ ureq'[r].pc = "load_session"
                         /\ Continuous(ureq[r])
                         /\ db.sessions[ureq[r].session_id[1]].link_id
                               = Some(ureq[r].params[1].link_id)
                 /\ ~Continuous(ureq[r])
                      => /\ ureq'[r].pc = "done"
                         /\ ureq'[r].result \in {"SessionNotFound", "Internal"}
                         /\ db' = db /\ browser' = browser
         /\ LinkCommitted(r)
              => /\ JarMaps(ureq[r].jar, ureq[r].params[1].link_id, ureq[r].session[1].id)
                 /\ db.sessions[ureq[r].session[1].id].link_id = Some(ureq[r].params[1].link_id)
                 /\ \A i \in DOMAIN db.sessions :
                       db'.sessions[i].consumed_at # db.sessions[i].consumed_at
                         => i = ureq[r].session[1].id]_vars

\* A request with the stale cookie, whose entry maps the link to a session
\* that is on another link, has ended with SessionNotFound, and nothing is
\* changed
C30_Witness ==
    /\ ureq[1].kind \in {"link_get", "link_post"}
    /\ ureq[1].result = "SessionNotFound"
    /\ ureq[1].params[1].link_id = 0
    /\ db = TwoLinksDb

----------------------------------------------------------------------------
(* Properties of the user a link authenticates *)

\* C31: Every authentication through an upstream link is of a browser
\* session of the user the link is bound to, in every state of the store:
\* no sequence of link requests, two forms for one link at the same time
\* included, commits an authentication of a session of one user through a
\* link bound to another.
C31_AuthenticatedUserIsLinkUser ==
    \A a \in UpstreamAuthentications(db) :
        LET link_id == db.authentications[a].link_id[1]
            user_session == db.user_sessions[db.authentications[a].user_session_id]
        IN /\ link_id \in DOMAIN db.links
           /\ db.links[link_id].user_id = Some(user_session.user_id)

\* Two users sent action=link for the unbound link at the same time; the
\* one that committed has its session authenticated through the link, bound
\* to that user, and nothing was authenticated for the other
C31_Witness ==
    /\ \A r \in Reqs : /\ ureq[r].kind = "link_post" /\ ureq[r].pc = "done"
                       /\ ureq[r].params[1].form[1].action = "Link"
                       /\ ureq[r].params[1].link_id = 0
    /\ ureq[1].from # ureq[2].from
    /\ Cardinality(UpstreamAuthentications(db)) = 1
    /\ \E a \in UpstreamAuthentications(db) :
         db.links[0].user_id = Some(db.user_sessions[db.authentications[a].user_session_id].user_id)
    /\ \E r \in Reqs : ureq[r].result = "Internal"

----------------------------------------------------------------------------
(* Properties of the nonce of the ID token *)

\* C32: Nonce binding.  The code exchange of a callback gives an ID token
\* only when its nonce claim is there and equals the nonce of the session
\* row; the ID token a callback goes on with, and the one of every completed
\* row, carries the nonce of the row.  A callback whose exchange fails ends
\* in an error with the store as it was: the session is Pending as before
\* and no link was added.
C32_NonceBinding ==
    /\ [](/\ \A i \in DOMAIN db.sessions :
               db.sessions[i].completed_at # None =>
                  /\ db.sessions[i].id_token # None
                  /\ db.sessions[i].id_token[1].nonce = db.sessions[i].nonce
          /\ \A r \in Reqs :
               (ureq[r].kind = "callback" /\ ureq[r].pc = "exchange") =>
                  LET row == db.sessions[ureq[r].session[1].id]
                      validation_data == [state |-> row.state, nonce |-> row.nonce]
                  IN \A answer \in UpstreamAnswers(row.nonce) :
                        (/\ answer.id_token # None
                         /\ answer.id_token[1].nonce # Some(row.nonce))
                          => access_token_with_authorization_code(
                                 answer, validation_data).err # "")
    /\ [][\A r \in Reqs :
            (ureq[r].kind = "callback" /\ ureq[r].pc = "exchange"
               /\ ureq'[r].pc # "exchange")
              => LET row == db.sessions[ureq[r].session[1].id]
                 IN \/ /\ ureq'[r].pc = "lookup_link"
                       /\ ureq'[r].id_token[1].nonce = row.nonce
                    \/ /\ ureq'[r].pc = "done" /\ ureq'[r].result # "Ok"
                       /\ db' = db
                       /\ row.completed_at = None]_vars

\* A callback of a pending session has failed on the ID token: the session
\* is still pending and the store has no link
C32_Witness ==
    /\ ureq[1].kind = "callback" /\ ureq[1].pc = "done"
    /\ ureq[1].result = "Internal" /\ ureq[1].db_error = Some("IdToken")
    /\ DOMAIN db.sessions # {}
    /\ \A i \in DOMAIN db.sessions : db.sessions[i].completed_at = None
    /\ DOMAIN db.links = {}

----------------------------------------------------------------------------
(* Properties of the value complete_session returns *)

\* C33: The session value complete_session returns is the stored row:
\* completed_at is set, id_token is the one given, and link_id is the id of
\* the link given, so that on the value returned link_id is set iff
\* completed_at is set.
C33_CompleteSessionValue ==
    [][\A r \in Reqs :
         (ureq[r].kind = "callback" /\ ureq[r].pc = "complete"
            /\ ureq'[r].pc = "commit")
           => LET returned == ureq'[r].session[1]
              IN /\ returned.completed_at # None
                 /\ returned.id_token = ureq[r].id_token
                 /\ returned.link_id = Some(ureq[r].link[1].id)
                 /\ (returned.link_id # None) <=> (returned.completed_at # None)
                 /\ returned = Struct(returned.id,
                                      UView(r)'.sessions[returned.id])]_vars

----------------------------------------------------------------------------
(* Properties of callbacks that run at the same time *)

\* C34: Two callbacks of one pending session that run at the same time do
\* not both complete it: a callback commits, and so writes link_id,
\* completed_at and id_token of the row, only while the stored row is not
\* completed; the callback that comes second fails.
C34_CompletedByOne ==
    [][\A r \in Reqs :
         (/\ ureq[r].kind = "callback" /\ ureq[r].pc = "commit"
          /\ ureq'[r].pc = "done"
          /\ db.sessions[ureq[r].session[1].id].completed_at # None)
           => /\ ureq'[r].result # "Ok"
              /\ db'.sessions[ureq[r].session[1].id]
                    = db.sessions[ureq[r].session[1].id]]_vars

----------------------------------------------------------------------------
(* Properties of the transaction of the callback *)

\* C35: The callback is all-or-nothing.  The store changes in no step of a
\* callback but its commit, which makes the link it added and the completion
\* of the session visible together; a callback that ends in an error, after
\* add_link as well (complete_session, the cookie or the commit failing),
\* leaves the store as it was.  So every link of the store is the link of a
\* completed session.
C35_CallbackAllOrNothing ==
    /\ [](\A l \in DOMAIN db.links :
             \E i \in DOMAIN db.sessions :
                db.sessions[i].completed_at # None /\ db.sessions[i].link_id = Some(l))
    /\ [][\A r \in Reqs :
            (ureq'[r].kind = "callback" /\ ureq'[r] # ureq[r])
              => IF ureq[r].pc = "commit" /\ ureq'[r].pc = "done" /\ ureq'[r].result = "Ok"
                 THEN LET id == ureq[r].session[1].id
                          link == ureq[r].link[1]
                      IN /\ db' = UApplyWrites(db, ureq[r].txn)
                         /\ link.id \in DOMAIN db'.links
                         /\ db'.sessions[id].completed_at # None
                         /\ db'.sessions[id].link_id = Some(link.id)
                 ELSE db' = db]_vars

\* A callback that had added a link and completed the session in its
\* transaction failed at the commit: the store has no link and the session
\* is pending
C35_Witness ==
    /\ ureq[1].kind = "callback" /\ ureq[1].pc = "done"
    /\ ureq[1].db_error = Some("commit")
    /\ DOMAIN db.links = {}
    /\ DOMAIN db.sessions # {}
    /\ \A i \in DOMAIN db.sessions :
          db.sessions[i].completed_at = None /\ db.sessions[i].link_id = None

----------------------------------------------------------------------------
(* Properties of the authentication by client_id and client_secret *)

\* The secret the configuration has for a client id: a set of at most one
\* Option, empty when no client has the id
ConfiguredSecrets(client_id) ==
    {Clients[k].client_secret : k \in {j \in DOMAIN Clients : Clients[j].client_id = client_id}}

\* C36: A client that presents client_id and maybe client_secret, in the
\* header or in the form, is authenticated exactly when the client_id names
\* a configured client and either no secret is presented and none is
\* configured, or both are there and equal.  Otherwise the answer is
\* ClientNotFound for an unknown client_id, ClientSecretMismatch for two
\* secrets that differ, NoClientSecret for a secret presented for a public
\* client and ClientSecretRequired for none presented for a confidential one.
C36_PairAuthentication ==
    (ureq[1].kind = "client_auth" /\ ureq[1].pc = "done"
       /\ (InHeader(ureq[1].params[1]) \/ InForm(ureq[1].params[1])))
      => LET request == ureq[1].params[1]
             client_id == IF InHeader(request) THEN request.header[1].username
                          ELSE request.form.client_id[1]
             presented == IF InHeader(request) THEN Some(request.header[1].password)
                          ELSE request.form.client_secret
             configured == ConfiguredSecrets(client_id)
             answer == ureq[1].result
         IN /\ answer = "Ok" <=>
                  \E secret \in configured :
                     \/ presented = None /\ secret = None
                     \/ presented # None /\ secret # None /\ presented[1] = secret[1]
            /\ answer = "ClientNotFound" <=> configured = {}
            /\ answer = "ClientSecretMismatch" <=>
                  \E secret \in configured :
                     presented # None /\ secret # None /\ presented[1] # secret[1]
            /\ answer = "NoClientSecret" <=>
                  (presented # None /\ configured = {None})
            /\ answer = "ClientSecretRequired" <=>
                  (presented = None /\ configured # {} /\ configured # {None})

\* A form with the client_id of the public client and a secret was answered
\* NoClientSecret
C36_Witness ==
    /\ ureq[1].kind = "client_auth" /\ ureq[1].pc = "done"
    /\ InForm(ureq[1].params[1])
    /\ ureq[1].params[1].form.client_id = Some("public")
    /\ ureq[1].params[1].form.client_secret # None
    /\ ureq[1].result = "NoClientSecret"

----------------------------------------------------------------------------
(* Properties of the login and logout pages *)

\* The browser session a login request starts, if it gets that far, has
\* the id drawn for the request
LoginSessionId(r) == UNewId(ureq[r].call)

\* C37: A password login leaves no browser session without an
\* Authentication event.  When a login POST has been answered, either it
\* succeeded, and its new browser session is stored with a password
\* authentication as its last one and is the session of the cookie, or it
\* did not (unknown user, no password, wrong password, a failure of the
\* storage at any step) and no new browser session is stored.
C37_LoginSessionAuthenticated ==
    \A r \in Reqs :
       (ureq[r].kind = "login_post" /\ ureq[r].pc = "done") =>
          LET id == LoginSessionId(r)
          IN IF ureq[r].result = "Ok"
             THEN /\ id \in DOMAIN db.user_sessions
                  /\ \A last \in LastAuthentication(db, id) :
                        /\ last # None
                        /\ db.authentications[last[1]].link_id = None
                  /\ ureq[r].response[1].session = id
             ELSE id \notin DOMAIN db.user_sessions

----------------------------------------------------------------------------
(* Properties of the verification codes *)

\* The step in which a storage function of the codes is called by caller r
EmailCalled(r, kind) ==
    ureq'[r].kind = kind /\ ureq'[r].call # ureq[r].call

\* C39: A verification code is used once.  consume_email_verification
\* succeeds only for a value whose state is Valid, and else returns the
\* invalid-operation error and writes nothing; a lookup of a code that has
\* been consumed reports AlreadyUsed, also when it has expired; and a
\* consume of a code that has been consumed never succeeds.
C39_CodeUsedOnce ==
    [][\A r \in Reqs :
         /\ EmailCalled(r, "consume_email_verification") =>
              LET given == ureq'[r].params[1].given
                  row == db.user_email_confirmation_codes[given.id]
              IN /\ ureq'[r].result = "Ok" =>
                      /\ given.state.tag = "Valid"
                      /\ row.consumed_at = None
                      /\ db' = [db EXCEPT
                                  !.user_email_confirmation_codes[given.id].consumed_at =
                                      Some(now)]
                 /\ ureq'[r].result # "Ok" => db' = db
                 /\ given.state.tag # "Valid" => ureq'[r].result = "InvalidOperation"
         /\ (EmailCalled(r, "lookup_user_email_verification_code")
               /\ ureq'[r].result = "Ok" /\ ureq'[r].response # None) =>
              LET got == ureq'[r].response[1]
                  row == db.user_email_confirmation_codes[got.id]
              IN /\ db' = db
                 /\ row.consumed_at # None => got.state.tag = "AlreadyUsed"]_vars

----------------------------------------------------------------------------
(* Specifications *)

\* The compat refresh endpoint, with two requests in flight at once
Init == RefreshInit /\ UpstreamIdle

Next == RefreshNext

Spec == Init /\ [][Next]_vars

\* The compat refresh endpoint, its calls made one after the other
SeqNext ==
    \/ \E tok \in RefreshInputs :
          /\ calls < MaxCalls
          /\ Post_begin(1, tok)
    \/ RefreshStep(1)
    \/ Tick

SpecSeq == Init /\ [][SeqNext]_vars

\* The upstream callback, one request at a time, with any cookie
SpecCallback == Init /\ [][CallbackNext]_vars

\* The upstream flow of browsers that follow the redirects, two requests
\* at a time
SpecUpstream == UpstreamInit /\ [][UpstreamNext]_vars

\* The link page of a resolved link, two requests at a time
SpecLink == LinkInit /\ [][LinkNext]_vars

\* The link page of a resolved link, one request after the other
SpecLinkSeq == LinkInit /\ [][LinkSeqNext]_vars

SpecStore == StoreInit /\ [][StoreNext]_vars

SpecClient == ClientInit /\ [][ClientNext]_vars

SpecContinuity == ContinuityInit /\ [][ContinuityNext]_vars

\* The login and logout pages, one request after the other
SpecPages == PagesInit /\ [][PagesNext]_vars

\* The verification codes, looked up and consumed by two callers
SpecEmail == EmailInit /\ [][EmailNext]_vars

====
